---- MODULE Spec2Model ----
(***************************************************************************)
(* GrowWise farming assistant: the keyword-matching voice-query responder  *)
(* (VoiceAssistantService) and the HTTP handlers that call it.             *)
(*                                                                         *)
(* Text is modelled as a sequence of one-character strings, so that        *)
(* lowercasing, stripping and substring containment are computed           *)
(* character by character as the Python code does.  Response texts are     *)
(* opaque values; their non-ASCII characters are written as \\uXXXX.       *)
(***************************************************************************)
EXTENDS Integers, Sequences, FiniteSets, TLC

VARIABLES
  voice_service,   \* the global VoiceAssistantService instance (its fields)
  query,           \* the text the client has entered so far
  nfrag,           \* number of fragments the client has entered
  calls,           \* number of process_query calls made with this text
  last,            \* the latest of these calls: its argument and result
  flask_voice_queries,    \* rows of table voice_queries (synchronous app)
  fastapi_user_queries,   \* rows of table user_queries (async service)
  background_tasks,       \* tasks added by async handlers, not yet run
  handled,                \* number of HTTP requests handled
  http,                   \* the latest HTTP exchange
  call,                   \* per thread: the process_query call it is running
  model_available,        \* async service: the CNN model file was loaded
  flask_predictions,      \* rows of table predictions (synchronous app)
  fastapi_predictions,    \* rows of table predictions (async service)
  prediction_tasks,       \* save_prediction tasks added, not yet run
  colors,                 \* the latest _analyze_colors call
  image_analysis,         \* the latest analyze_image call
  constructed,            \* the file store's DataManager has been constructed
  files,                  \* content of each JSON file of the file store
  saved,                  \* per file: number of entries ever saved to it
  failed,                 \* per file: number of its writes that failed
  store_ops,              \* number of file-store operations made
  history,                \* the latest get_..._history call and its result
  saver,                  \* per thread: the file-store save it is running
  market_prices,          \* per database: committed rows of market_prices
  market_txn,             \* per database: the save_market_prices call in progress
  market_calls            \* number of save_market_prices calls made

(***************************************************************************)
(* Bounds                                                                  *)
(***************************************************************************)
MaxFragments == 2
MaxCalls == 2
MaxRequests == 2
MaxStoreOps == 3
MaxMarketCalls == 2
NumThreads == 2

(***************************************************************************)
(* Characters: str.lower() and str.strip()                                 *)
(***************************************************************************)
UpperCase == <<"A","B","C","D","E","F","G","H","I","J","K","L","M",
               "N","O","P","Q","R","S","T","U","V","W","X","Y","Z">>
LowerCase == <<"a","b","c","d","e","f","g","h","i","j","k","l","m",
               "n","o","p","q","r","s","t","u","v","w","x","y","z">>

\* U+017F, LATIN SMALL LETTER LONG S: a lowercase letter, which str.lower()
\* leaves as it is and str.upper() turns into "S"
LongS == "\\u017F"

\* the characters str.strip() removes that the model's texts can contain
Whitespace == {" ", "\t", "\n", "\r", "\f"}

lower_char(c) ==
  IF \E i \in 1..Len(UpperCase) : UpperCase[i] = c
  THEN LowerCase[CHOOSE i \in 1..Len(UpperCase) : UpperCase[i] = c]
  ELSE c

\* str.lower()
lower(s) == [i \in 1..Len(s) |-> lower_char(s[i])]

RECURSIVE lstrip(_)
lstrip(s) ==
  IF s # <<>> /\ Head(s) \in Whitespace THEN lstrip(Tail(s)) ELSE s

RECURSIVE rstrip(_)
rstrip(s) ==
  IF s # <<>> /\ s[Len(s)] \in Whitespace
  THEN rstrip(SubSeq(s, 1, Len(s) - 1))
  ELSE s

\* str.strip()
strip(s) == rstrip(lstrip(s))

\* Python's  keyword in text  on strings: substring containment
Contains(text, keyword) ==
  \E i \in 0..(Len(text) - Len(keyword)) :
     \A j \in 1..Len(keyword) : text[i + j] = keyword[j]

(***************************************************************************)
(* VoiceAssistantService.__init__: the two tables.  A Python dict keeps    *)
(* insertion order, so query_patterns is the sequence of its items.        *)
(***************************************************************************)
query_patterns ==
  <<
    [category |-> "weather", keywords |-> <<
       <<"w","e","a","t","h","e","r">>,
       <<"t","e","m","p","e","r","a","t","u","r","e">>,
       <<"r","a","i","n">>,
       <<"c","l","i","m","a","t","e">>,
       <<"f","o","r","e","c","a","s","t">>,
       <<"s","u","n","n","y">>,
       <<"c","l","o","u","d","y">>,
       <<"h","u","m","i","d","i","t","y">>
     >>],
    [category |-> "prices", keywords |-> <<
       <<"p","r","i","c","e">>,
       <<"c","o","s","t">>,
       <<"m","a","r","k","e","t">>,
       <<"s","e","l","l">>,
       <<"b","u","y">>,
       <<"r","a","t","e">>,
       <<"e","x","p","e","n","s","i","v","e">>,
       <<"c","h","e","a","p">>,
       <<"r","u","p","e","e","s">>
     >>],
    [category |-> "disease", keywords |-> <<
       <<"d","i","s","e","a","s","e">>,
       <<"s","i","c","k">>,
       <<"p","r","o","b","l","e","m">>,
       <<"l","e","a","f">>,
       <<"p","l","a","n","t">>,
       <<"c","r","o","p">>,
       <<"i","n","f","e","c","t","i","o","n">>,
       <<"p","e","s","t">>,
       <<"s","p","o","t","s">>,
       <<"y","e","l","l","o","w">>
     >>],
    [category |-> "fertilizer", keywords |-> <<
       <<"f","e","r","t","i","l","i","z","e","r">>,
       <<"n","u","t","r","i","e","n","t">>,
       <<"s","o","i","l">>,
       <<"c","o","m","p","o","s","t">>,
       <<"m","a","n","u","r","e">>,
       <<"n","i","t","r","o","g","e","n">>,
       <<"p","h","o","s","p","h","o","r","u","s">>,
       <<"p","o","t","a","s","s","i","u","m">>
     >>],
    [category |-> "cultivation", keywords |-> <<
       <<"s","e","e","d">>,
       <<"p","l","a","n","t","i","n","g">>,
       <<"g","r","o","w","i","n","g">>,
       <<"c","u","l","t","i","v","a","t","i","o","n">>,
       <<"h","a","r","v","e","s","t">>,
       <<"f","a","r","m","i","n","g">>,
       <<"i","r","r","i","g","a","t","i","o","n">>,
       <<"w","a","t","e","r">>
     >>],
    [category |-> "pest", keywords |-> <<
       <<"p","e","s","t">>,
       <<"i","n","s","e","c","t">>,
       <<"b","u","g">>,
       <<"c","a","t","e","r","p","i","l","l","a","r">>,
       <<"a","p","h","i","d">>,
       <<"m","i","t","e">>,
       <<"l","a","r","v","a","e">>
     >>],
    [category |-> "soil", keywords |-> <<
       <<"s","o","i","l">>,
       <<"p","h">>,
       <<"a","c","i","d","i","t","y">>,
       <<"a","l","k","a","l","i","n","e">>,
       <<"d","r","a","i","n","a","g","e">>,
       <<"c","l","a","y">>,
       <<"s","a","n","d">>,
       <<"l","o","a","m">>
     >>],
    [category |-> "season", keywords |-> <<
       <<"s","e","a","s","o","n">>,
       <<"m","o","n","s","o","o","n">>,
       <<"w","i","n","t","e","r">>,
       <<"s","u","m","m","e","r">>,
       <<"s","o","w","i","n","g">>,
       <<"t","i","m","i","n","g">>
     >>]
  >>

responses ==
     "weather" :> "\\U0001F324\\uFE0F To get current weather information, use the Weather tab. Enter your city name or allow location access to get real-time weather data including temperature, humidity, and wind speed."
  @@ "prices" :> "\\U0001F4B0 Check the Market Prices section for current rates of vegetables and fruits. You can filter by category to see specific produce prices in your area."
  @@ "disease" :> "\\U0001F52C For plant disease detection, use the Disease Detection tab. Take a clear photo of the affected plant leaves and upload it for AI-powered analysis and treatment recommendations."
  @@ "fertilizer" :> "\\U0001F331 For fertilizer recommendations: Use nitrogen-rich fertilizers for leafy growth, phosphorus for root development, and potassium for flowering. Consider organic compost and get soil testing for specific nutrient needs."
  @@ "cultivation" :> "\\U0001F69C Cultivation tips: Choose seeds based on your local climate and soil type. Ensure proper spacing, watering schedule, and crop rotation. Consult your local agricultural extension office for region-specific advice."
  @@ "pest" :> "\\U0001F41B For pest management: Use integrated pest management (IPM) approaches. Try neem oil, companion planting, and beneficial insects before chemical pesticides. Regular monitoring is key to early detection."
  @@ "soil" :> "\\U0001F3D4\\uFE0F Soil health tips: Test your soil pH (6.0-7.0 is ideal for most crops). Improve drainage with organic matter. Add compost regularly to maintain soil structure and fertility."
  @@ "season" :> "\\U0001F4C5 Seasonal farming: Plan crops according to local seasons. Monsoon is ideal for rice and sugarcane. Winter is good for wheat and vegetables. Summer crops include cotton and pulses."
  @@ "greeting" :> "\\U0001F44B Hello! I'm your GrowWise farming assistant. I can help you with weather information, market prices, plant disease detection, and general farming guidance. What would you like to know?"
  @@ "default" :> "\\U0001F33E I'm here to help with farming! I can assist with:\n\\u2022 Weather information\n\\u2022 Market prices\n\\u2022 Plant disease detection\n\\u2022 Soil and fertilizer advice\n\\u2022 Pest management\n\\u2022 Cultivation tips\n\nPlease ask me something specific about farming!"

\* the list local to _is_greeting
greetings ==
  <<
    <<"h","e","l","l","o">>,
    <<"h","i">>,
    <<"h","e","y">>,
    <<"g","o","o","d"," ","m","o","r","n","i","n","g">>,
    <<"g","o","o","d"," ","a","f","t","e","r","n","o","o","n">>,
    <<"g","o","o","d"," ","e","v","e","n","i","n","g">>,
    <<"n","a","m","a","s","t","e">>,
    <<"g","r","e","e","t","i","n","g","s">>,
    <<"h","o","w","d","y">>
  >>

(***************************************************************************)
(* VoiceAssistantService._is_greeting                                      *)
(***************************************************************************)
_is_greeting(q) ==
  \E i \in 1..Len(greetings) : Contains(q, greetings[i])

\* number of (possibly overlapping) places where keyword starts in text
Occurrences(text, keyword) ==
  Cardinality({i \in 0..(Len(text) - Len(keyword)) :
                 \A j \in 1..Len(keyword) : text[i + j] = keyword[j]})

RECURSIVE SumOccurrences(_, _, _)
SumOccurrences(keywords, query_lower, i) ==
  IF i > Len(keywords) THEN 0
  ELSE Occurrences(query_lower, keywords[i])
         + SumOccurrences(keywords, query_lower, i + 1)

\* variant: every occurrence of a keyword counts
match_count_occurrences(keywords, query_lower) ==
  SumOccurrences(keywords, query_lower, 1)

\* sum(1 for keyword in keywords if keyword in query_lower)
match_count(keywords, query_lower) ==
  Cardinality({i \in 1..Len(keywords) : Contains(query_lower, keywords[i])})

\* variant: categories with a zero count are entered in matches too
matches_of_all(self, query_lower) ==
  [i \in 1..Len(self.query_patterns) |->
     [category |-> self.query_patterns[i].category,
      match_count |-> match_count(self.query_patterns[i].keywords,
                                  query_lower)]]

\* the dict  matches  after the scoring loop, as the sequence of its items
matches_of(self, query_lower) ==
  LET scored == [i \in 1..Len(self.query_patterns) |->
                   [category |-> self.query_patterns[i].category,
                    match_count |-> match_count(self.query_patterns[i].keywords,
                                                query_lower)]]
      Positive(m) == m.match_count > 0
  IN  SelectSeq(scored, Positive)

\* variant: a later key with an equal value replaces the best one
RECURSIVE max_from_last(_, _, _)
max_from_last(matches, best, i) ==
  IF i > Len(matches) THEN best
  ELSE IF matches[i].match_count >= best.match_count
       THEN max_from_last(matches, matches[i], i + 1)
       ELSE max_from_last(matches, best, i + 1)

\* max(matches, key=matches.get): the first key, in iteration order, whose
\* value no later key exceeds strictly
RECURSIVE max_from(_, _, _)
max_from(matches, best, i) ==
  IF i > Len(matches) THEN best
  ELSE IF matches[i].match_count > best.match_count
       THEN max_from(matches, matches[i], i + 1)
       ELSE max_from(matches, best, i + 1)

\* variant: the first matching category wins, whatever its count
max_key_first(matches) == matches[1].category

max_key(matches) == max_from(matches, matches[1], 2).category

\* variant: blank text is rejected with an empty result
process_query_rejecting(self, q) ==
  LET query_lower == strip(lower(q))
      matches == matches_of(self, query_lower)
  IN  IF query_lower = <<>> THEN ""
      ELSE IF _is_greeting(query_lower) THEN self.responses["greeting"]
      ELSE IF matches # <<>> THEN self.responses[max_key(matches)]
      ELSE self.responses["default"]

\* variant: the greeting check comes after the keyword scoring
process_query_keywords_first(self, q) ==
  LET query_lower == strip(lower(q))
      matches == matches_of(self, query_lower)
  IN  IF matches # <<>> THEN self.responses[max_key(matches)]
      ELSE IF _is_greeting(query_lower) THEN self.responses["greeting"]
      ELSE self.responses["default"]

\* variant: the keywords are looked up in the text as entered
process_query_raw(self, q) ==
  LET query_lower == strip(lower(q))
      matches == matches_of(self, q)
  IN  IF _is_greeting(query_lower) THEN self.responses["greeting"]
      ELSE IF matches # <<>> THEN self.responses[max_key(matches)]
      ELSE self.responses["default"]

\* variant: the response is looked up with the loop variable  category,
\* which after the scoring loop is the last category of the table
process_query_loop_variable(self, q) ==
  LET query_lower == strip(lower(q))
      matches == matches_of(self, query_lower)
  IN  IF _is_greeting(query_lower) THEN self.responses["greeting"]
      ELSE IF matches # <<>>
           THEN self.responses[
                  self.query_patterns[Len(self.query_patterns)].category]
      ELSE self.responses["default"]

(***************************************************************************)
(* VoiceAssistantService.process_query                                     *)
(***************************************************************************)
process_query(self, q) ==
  LET query_lower == strip(lower(q))
      matches == matches_of(self, query_lower)
  IN  IF _is_greeting(query_lower) THEN self.responses["greeting"]
      ELSE IF matches # <<>> THEN self.responses[max_key(matches)]
      ELSE self.responses["default"]

(***************************************************************************)
(* The client: texts are entered fragment by fragment                      *)
(***************************************************************************)
Fragments ==
  {
    <<"h","e","l","l","o",","," ">>,
    <<"w","h","a","t"," ","f","e","r","t","i","l","i","z","e","r"," ","d","o"," ","I"," ","n","e","e","d">>,
    <<"w","h","a","t"," ","i","s"," ","t","h","e"," ","w","e","a","t","h","e","r">>,
    <<" ","f","o","r","e","c","a","s","t"," ","t","o","d","a","y">>,
    <<"s","o","i","l">>,
    <<" ","p","r","i","c","e">>,
    <<"a","s","d","k","j","a","s","d">>,
    <<" "," ">>,
    <<" "," ","W","E","A","T","H","E","R"," ","T","o","d","a","y">>,
    <<"w","e","a","t","h","e","r"," ","w","e","a","t","h","e","r"," ","w","e","a","t","h","e","r">>,
    <<" ","p","r","i","c","e"," ","c","o","s","t">>,
    <<"a","p","h","i","d">>,
    <<"\t","\n">>,
    <<LongS,"o","i","l">>
  }

NoCall == [called |-> FALSE, query |-> <<>>, response |-> ""]

NoExchange ==
  [app |-> "none", body |-> [json |-> FALSE], status |-> 0,
   payload |-> [detail |-> "none"], invoked |-> FALSE]

client_vars == <<query, nfrag, calls, last>>

http_vars == <<flask_voice_queries, fastapi_user_queries, background_tasks,
               handled, http>>

conc_vars == <<call>>

disease_vars == <<model_available, flask_predictions, fastapi_predictions,
                  prediction_tasks, colors>>

file_vars == <<constructed, files, saved, failed, store_ops, history>>

saver_vars == <<saver>>

market_vars == <<market_prices, market_txn, market_calls>>

store_vars == <<image_analysis, file_vars, saver_vars, market_vars>>

vars == <<voice_service, query, nfrag, calls, last, flask_voice_queries,
          fastapi_user_queries, background_tasks, handled, http, call,
          model_available, flask_predictions, fastapi_predictions,
          prediction_tasks, colors, image_analysis, constructed, files, saved,
          failed, store_ops, history, saver, market_prices, market_txn,
          market_calls>>

Threads == 1..NumThreads

IdleCall ==
  [pc |-> "idle", query |-> <<>>, query_lower |-> <<>>, i |-> 0,
   matches |-> <<>>, result |-> ""]

NoColors == [analysed |-> FALSE]

NoAnalysis == [analysed |-> FALSE]

\* the JSON files DataManager.ensure_data_files creates
FILES ==
  {"predictions.json", "weather_cache.json", "voice_queries.json",
   "market_prices.json"}

\* a file holding the JSON list  []
EmptyFile == [valid |-> TRUE, data |-> <<>>]

NoHistory == [called |-> FALSE]

\* the database of the synchronous app (db_models.DatabaseManager) and of
\* the async service (database.DatabaseManager)
Databases == {"flask", "fastapi"}

\* no save_market_prices call has been made on the database
NoTransaction ==
  [pc |-> "idle", before |-> <<>>, working |-> <<>>, prices |-> <<>>, i |-> 0]

\* a thread that has not called a save of the file store
IdleSaver == [pc |-> "idle", file |-> "", list |-> <<>>, entry |-> [id |-> 0]]

\* nothing has been analysed or stored yet
StoreInit ==
  /\ image_analysis = NoAnalysis
  /\ constructed = FALSE
  /\ files = [f \in FILES |-> EmptyFile]
  /\ saved = [f \in FILES |-> 0]
  /\ failed = [f \in FILES |-> 0]
  /\ store_ops = 0
  /\ history = NoHistory
  /\ saver = [t \in Threads |-> IdleSaver]
  /\ market_prices = [d \in Databases |-> <<>>]
  /\ market_txn = [d \in Databases |-> NoTransaction]
  /\ market_calls = 0

\* variant: category 'season' has triggers but no entry in responses
ResponsesWithout(c) ==
  [d \in (DOMAIN responses) \ {c} |-> responses[d]]

InitExceptModel_missing_response ==
  /\ voice_service = [query_patterns |-> query_patterns,
                      responses |-> ResponsesWithout("season")]
  /\ query = <<>>
  /\ nfrag = 0
  /\ calls = 0
  /\ last = NoCall
  /\ flask_voice_queries = <<>>
  /\ fastapi_user_queries = <<>>
  /\ background_tasks = <<>>
  /\ handled = 0
  /\ http = NoExchange
  /\ call = [t \in Threads |-> IdleCall]
  /\ flask_predictions = <<>>
  /\ fastapi_predictions = <<>>
  /\ prediction_tasks = <<>>
  /\ colors = NoColors
  /\ StoreInit

InitExceptModel ==
  /\ voice_service = [query_patterns |-> query_patterns, responses |-> responses]
  /\ query = <<>>
  /\ nfrag = 0
  /\ calls = 0
  /\ last = NoCall
  /\ flask_voice_queries = <<>>
  /\ fastapi_user_queries = <<>>
  /\ background_tasks = <<>>
  /\ handled = 0
  /\ http = NoExchange
  /\ call = [t \in Threads |-> IdleCall]
  /\ flask_predictions = <<>>
  /\ fastapi_predictions = <<>>
  /\ prediction_tasks = <<>>
  /\ colors = NoColors
  /\ StoreInit

Init ==
  /\ InitExceptModel
  /\ model_available = FALSE

\* the client enters one more fragment of text; the new text has not been
\* answered yet
Say(f) ==
  /\ nfrag < MaxFragments
  /\ query' = query \o f
  /\ nfrag' = nfrag + 1
  /\ calls' = 0
  /\ last' = NoCall
  /\ UNCHANGED <<voice_service, http_vars, conc_vars, store_vars, disease_vars>>

\* variant: the selected category is popped from the keyword table
RemoveCategory(patterns, response, table) ==
  LET Keep(p) == table[p.category] # response
  IN  SelectSeq(patterns, Keep)

ProcessQuery_popping ==
  /\ calls < MaxCalls
  /\ calls' = calls + 1
  /\ last' = [called |-> TRUE, query |-> query,
              response |-> process_query(voice_service, query)]
  /\ voice_service' =
       [voice_service EXCEPT !.query_patterns =
          RemoveCategory(@, process_query(voice_service, query),
                         voice_service.responses)]
  /\ UNCHANGED <<query, nfrag, http_vars, conc_vars, store_vars, disease_vars>>

\* one call voice_service.process_query(query): reads the service, writes
\* none of its fields
ProcessQuery ==
  /\ calls < MaxCalls
  /\ calls' = calls + 1
  /\ last' = [called |-> TRUE, query |-> query,
              response |-> process_query(voice_service, query)]
  /\ UNCHANGED <<voice_service, query, nfrag, http_vars, conc_vars, store_vars,
                 disease_vars>>

Next ==
  \/ \E f \in Fragments : Say(f)
  \/ ProcessQuery

Spec == Init /\ [][Next]_vars

(***************************************************************************)
(* Vocabulary of the properties, stated on the tables of __init__          *)
(* independently of the way process_query computes its result              *)
(***************************************************************************)
KeywordCategories == {query_patterns[i].category : i \in 1..Len(query_patterns)}

AllCategories == KeywordCategories \cup {"greeting", "default"}

Triggers(c) ==
  LET i == CHOOSE k \in 1..Len(query_patterns) : query_patterns[k].category = c
  IN  {query_patterns[i].keywords[j] : j \in 1..Len(query_patterns[i].keywords)}

DeclIndex(c) ==
  CHOOSE k \in 1..Len(query_patterns) : query_patterns[k].category = c

\* t occurs in s as a contiguous block
Occurs(t, s) ==
  \E i \in 1..(Len(s) - Len(t) + 1) :
     \A j \in 1..Len(t) : s[i + j - 1] = t[j]

Normalized(q) == strip(lower(q))

HasGreeting(s) == \E i \in 1..Len(greetings) : Occurs(greetings[i], s)

\* for each keyword category, the number of its distinct triggers in s
Scores(s) ==
  [c \in KeywordCategories |-> Cardinality({t \in Triggers(c) : Occurs(t, s)})]

Scored(sc) == {c \in DOMAIN sc : sc[c] > 0}

TopScored(sc) == {c \in Scored(sc) : \A d \in DOMAIN sc : sc[d] <= sc[c]}

FirstDeclared(cs) == CHOOSE c \in cs : \A d \in cs : DeclIndex(c) <= DeclIndex(d)

\* the category the classification rules select for the normalized text s
RuleCategory(s) ==
  IF HasGreeting(s) THEN "greeting"
  ELSE LET sc == Scores(s)
       IN  IF Scored(sc) = {} THEN "default"
           ELSE FirstDeclared(TopScored(sc))

Text_HelloFertilizer ==
  <<"h","e","l","l","o",","," ">> \o
  <<"w","h","a","t"," ","f","e","r","t","i","l","i","z","e","r"," ",
    "d","o"," ","I"," ","n","e","e","d">>

Text_WeatherForecast ==
  <<"w","h","a","t"," ","i","s"," ","t","h","e"," ","w","e","a","t","h","e","r">> \o
  <<" ","f","o","r","e","c","a","s","t"," ","t","o","d","a","y">>

Text_SoilPrice == <<"s","o","i","l"," ","p","r","i","c","e">>

Text_Noise == <<"a","s","d","k","j","a","s","d">>

Text_WeatherTodayPadded ==
  <<" "," ","W","E","A","T","H","E","R"," ","T","o","d","a","y"," "," ">>

Text_RepeatedWeather ==
  <<"w","e","a","t","h","e","r"," ","w","e","a","t","h","e","r"," ",
    "w","e","a","t","h","e","r"," ","p","r","i","c","e"," ","c","o","s","t">>

(***************************************************************************)
(* C1: every call of process_query, whatever the text (empty, blank or     *)
(* without any known word), returns a non-empty string that is the         *)
(* response of one category of the closed set.                             *)
(***************************************************************************)
C1_TotalResponse ==
  last.called =>
    /\ last.response # ""
    /\ \E c \in AllCategories : last.response = responses[c]

\* a blank, non-empty text has been answered
C1_Witness ==
  /\ last.called
  /\ last.query # <<>>
  /\ Normalized(last.query) = <<>>
  /\ last.response = responses["default"]

(***************************************************************************)
(* C2: a text whose normalized form contains a greeting anywhere is        *)
(* answered with the greeting response, whatever keyword triggers it       *)
(* also contains.                                                          *)
(***************************************************************************)
C2_GreetingPrecedence ==
  (last.called /\ HasGreeting(Normalized(last.query)))
    => last.response = responses["greeting"]

\* 'hello, what fertilizer do I need' (a greeting and a fertilizer trigger)
C2_Witness ==
  /\ last.called
  /\ last.query = Text_HelloFertilizer
  /\ Scores(Normalized(last.query))["fertilizer"] > 0
  /\ last.response = responses["greeting"]

(***************************************************************************)
(* C3: without a greeting and with some category scored, the response is   *)
(* that of a category no other category outscores.                         *)
(***************************************************************************)
C3_HighestScore ==
  last.called =>
    LET s == Normalized(last.query)
        sc == Scores(s)
    IN  (~HasGreeting(s) /\ Scored(sc) # {})
          => \E c \in TopScored(sc) : last.response = responses[c]

\* 'what is the weather forecast today' scores weather 2 and is answered weather
C3_Witness ==
  /\ last.called
  /\ last.query = Text_WeatherForecast
  /\ Scores(Normalized(last.query))["weather"] = 2
  /\ last.response = responses["weather"]

(***************************************************************************)
(* C4: among the categories that tie for the highest score, the one        *)
(* declared first in the keyword table is selected.                        *)
(***************************************************************************)
C4_TieBreakFirstDeclared ==
  last.called =>
    LET s == Normalized(last.query)
        sc == Scores(s)
    IN  (~HasGreeting(s) /\ Scored(sc) # {})
          => last.response = responses[FirstDeclared(TopScored(sc))]

\* 'soil price': prices, fertilizer and soil tie at 1; prices is answered
C4_Witness ==
  /\ last.called
  /\ last.query = Text_SoilPrice
  /\ TopScored(Scores(Normalized(last.query))) = {"prices", "fertilizer", "soil"}
  /\ last.response = responses["prices"]

(***************************************************************************)
(* C5: without a greeting and without any scored category the response     *)
(* is the default response.                                                *)
(***************************************************************************)
C5_DefaultFallback ==
  last.called =>
    LET s == Normalized(last.query)
    IN  (~HasGreeting(s) /\ Scored(Scores(s)) = {})
          => last.response = responses["default"]

\* 'asdkjasd' is answered with the default response
C5_Witness ==
  /\ last.called
  /\ last.query = Text_Noise
  /\ last.response = responses["default"]

(***************************************************************************)
(* C6: the match count the scoring loop computes for a category is the     *)
(* number of distinct triggers of the category that occur in the           *)
(* normalized text; repetitions of a trigger do not count.                 *)
(***************************************************************************)
C6_DistinctTriggerCount ==
  last.called =>
    LET s == Normalized(last.query)
        sc == Scores(s)
    IN  \A i \in 1..Len(voice_service.query_patterns) :
           match_count(voice_service.query_patterns[i].keywords, s)
             = sc[voice_service.query_patterns[i].category]

\* 'weather' three times, 'price' and 'cost' once: weather 1, prices 2
C6_Witness ==
  /\ last.called
  /\ last.query = Text_RepeatedWeather
  /\ match_count(voice_service.query_patterns[1].keywords,
                 Normalized(last.query)) = 1
  /\ match_count(voice_service.query_patterns[2].keywords,
                 Normalized(last.query)) = 2
  /\ last.response = responses["prices"]

(***************************************************************************)
(* C7: the result for a text equals the result for the text lowercased     *)
(* and stripped; changing letter case or padding the text with whitespace  *)
(* does not change the result.                                             *)
(***************************************************************************)
\* uppercasing of the letters a..z only
ascii_upper_char(c) ==
  IF \E i \in 1..Len(LowerCase) : LowerCase[i] = c
  THEN UpperCase[CHOOSE i \in 1..Len(LowerCase) : LowerCase[i] = c]
  ELSE c

AsciiUpper(s) == [i \in 1..Len(s) |-> ascii_upper_char(s[i])]

\* str.upper() on the characters of the model
upper_char(c) == IF c = LongS THEN "S" ELSE ascii_upper_char(c)

Upper(s) == [i \in 1..Len(s) |-> upper_char(s[i])]

Padded(s) == <<" ", "\t">> \o s \o <<"\n", " ">>

\* C7 as stated: any change of letter case, str.upper() included, leaves the
\* result unchanged
C7_AnyCaseChange ==
  last.called =>
    /\ last.response = process_query(voice_service, Normalized(last.query))
    /\ last.response = process_query(voice_service, Upper(last.query))
    /\ last.response = process_query(voice_service, Padded(last.query))

\* C7 amended: the result equals that of the lowercased, stripped text;
\* padding with whitespace and changing the case of the letters a..z, A..Z
\* leave it unchanged
C7_CaseWhitespaceInsensitive ==
  last.called =>
    /\ last.response = process_query(voice_service, Normalized(last.query))
    /\ last.response = process_query(voice_service, AsciiUpper(last.query))
    /\ last.response = process_query(voice_service, Padded(last.query))

\* '  WEATHER Today  ' is answered as 'weather today' is
C7_Witness ==
  /\ last.called
  /\ last.query = Text_WeatherTodayPadded
  /\ Normalized(last.query) # last.query
  /\ last.response = responses["weather"]
  /\ last.response = process_query(voice_service, Normalized(last.query))

(***************************************************************************)
(* C8: the string returned is exactly the response-table entry of the      *)
(* category the classification rules select, and that category has an      *)
(* entry in the response table.                                            *)
(***************************************************************************)
C8_ResponseOfRuleCategory ==
  last.called =>
    /\ RuleCategory(Normalized(last.query)) \in DOMAIN voice_service.responses
    /\ last.response =
         voice_service.responses[RuleCategory(Normalized(last.query))]

\* a text whose rule category is fertilizer was answered with that entry
C8_Witness ==
  /\ last.called
  /\ RuleCategory(Normalized(last.query)) = "fertilizer"
  /\ last.response = responses["fertilizer"]

(***************************************************************************)
(* C9: process_query changes no field of the service, and a call with the  *)
(* same text as the call before it returns the identical string, after     *)
(* any earlier calls.                                                      *)
(***************************************************************************)
C9_PureIdempotent ==
  [][/\ voice_service' = voice_service
     /\ (last.called /\ last'.called /\ last'.query = last.query)
          => last'.response = last.response]_vars

\* 'soil price' was asked twice in a row, after earlier calls on its prefixes
C9_Witness ==
  /\ calls >= 2
  /\ last.called
  /\ last.query = Text_SoilPrice
  /\ last.response = responses["prices"]
  /\ voice_service.query_patterns = query_patterns
  /\ voice_service.responses = responses

(***************************************************************************)
(* The HTTP layer.  A request body is either not JSON, or a JSON object    *)
(* without the key 'query', or a JSON object whose 'query' is a text.      *)
(* Both applications answer through the global voice_service; the async    *)
(* package's own services/voice_service module is not among the sources,   *)
(* and its handler is modelled calling the same process_query.             *)
(***************************************************************************)
RequestTexts ==
  {<<>>, <<" ", " ">>, <<"\t", "\n">>, Text_SoilPrice, Text_Noise,
   Text_WeatherTodayPadded}

RequestBodies ==
  {[json |-> FALSE], [json |-> TRUE, has_query |-> FALSE]}
    \cup {[json |-> TRUE, has_query |-> TRUE, query |-> t] : t \in RequestTexts}

\* DatabaseManager.save_voice_query of either database manager: the row is
\* added and committed, or the commit fails and an exception is raised
save_voice_query(table, q, response) == Append(table, [query |-> q, response |-> response])

\* variant: a failed commit is ignored and the request still succeeds
process_voice_query_ignoring_failure(body, commit_ok) ==
  /\ handled < MaxRequests
  /\ handled' = handled + 1
  /\ IF ~body.json
     THEN /\ http' = [app |-> "flask", body |-> body, status |-> 500,
                      payload |-> [success |-> FALSE, error |-> "exception"],
                      invoked |-> FALSE]
          /\ UNCHANGED flask_voice_queries
     ELSE LET q == strip(IF body.has_query THEN body.query ELSE <<>>)
              response == process_query(voice_service, q)
          IN  IF q = <<>>
              THEN /\ http' = [app |-> "flask", body |-> body, status |-> 400,
                               payload |-> [success |-> FALSE,
                                            error |-> "Query is required"],
                               invoked |-> FALSE]
                   /\ UNCHANGED flask_voice_queries
              ELSE /\ flask_voice_queries' =
                        IF commit_ok
                        THEN save_voice_query(flask_voice_queries, q, response)
                        ELSE flask_voice_queries
                   /\ http' = [app |-> "flask", body |-> body, status |-> 200,
                               payload |-> [success |-> TRUE,
                                            data |-> [query |-> q,
                                                      response |-> response]],
                               invoked |-> TRUE]
  /\ UNCHANGED <<voice_service, client_vars, fastapi_user_queries,
                 background_tasks, conc_vars, store_vars, disease_vars>>

\* variant: the query is used as received, without .strip()
process_voice_query_unstripped(body, commit_ok) ==
  /\ handled < MaxRequests
  /\ handled' = handled + 1
  /\ IF ~body.json
     THEN \* data is None (or get_json raises): caught by  except Exception
          /\ http' = [app |-> "flask", body |-> body, status |-> 500,
                      payload |-> [success |-> FALSE, error |-> "exception"],
                      invoked |-> FALSE]
          /\ UNCHANGED flask_voice_queries
     ELSE LET q == IF body.has_query THEN body.query ELSE <<>>
              response == process_query(voice_service, q)
          IN  IF q = <<>>
              THEN /\ http' = [app |-> "flask", body |-> body, status |-> 400,
                               payload |-> [success |-> FALSE,
                                            error |-> "Query is required"],
                               invoked |-> FALSE]
                   /\ UNCHANGED flask_voice_queries
              ELSE IF commit_ok
              THEN /\ flask_voice_queries' =
                        save_voice_query(flask_voice_queries, q, response)
                   /\ http' = [app |-> "flask", body |-> body, status |-> 200,
                               payload |-> [success |-> TRUE,
                                            data |-> [query |-> q,
                                                      response |-> response]],
                               invoked |-> TRUE]
              ELSE /\ http' = [app |-> "flask", body |-> body, status |-> 500,
                               payload |-> [success |-> FALSE,
                                            error |-> "exception"],
                               invoked |-> TRUE]
                   /\ UNCHANGED flask_voice_queries
  /\ UNCHANGED <<voice_service, client_vars, fastapi_user_queries,
                 background_tasks, conc_vars, store_vars, disease_vars>>

\* routes.process_voice_query of the synchronous app
process_voice_query(body, commit_ok) ==
  /\ handled < MaxRequests
  /\ handled' = handled + 1
  /\ IF ~body.json
     THEN \* data is None (or get_json raises): caught by  except Exception
          /\ http' = [app |-> "flask", body |-> body, status |-> 500,
                      payload |-> [success |-> FALSE, error |-> "exception"],
                      invoked |-> FALSE]
          /\ UNCHANGED flask_voice_queries
     ELSE LET q == strip(IF body.has_query THEN body.query ELSE <<>>)
              response == process_query(voice_service, q)
          IN  IF q = <<>>
              THEN /\ http' = [app |-> "flask", body |-> body, status |-> 400,
                               payload |-> [success |-> FALSE,
                                            error |-> "Query is required"],
                               invoked |-> FALSE]
                   /\ UNCHANGED flask_voice_queries
              ELSE IF commit_ok
              THEN /\ flask_voice_queries' =
                        save_voice_query(flask_voice_queries, q, response)
                   /\ http' = [app |-> "flask", body |-> body, status |-> 200,
                               payload |-> [success |-> TRUE,
                                            data |-> [query |-> q,
                                                      response |-> response]],
                               invoked |-> TRUE]
              ELSE /\ http' = [app |-> "flask", body |-> body, status |-> 500,
                               payload |-> [success |-> FALSE,
                                            error |-> "exception"],
                               invoked |-> TRUE]
                   /\ UNCHANGED flask_voice_queries
  /\ UNCHANGED <<voice_service, client_vars, fastapi_user_queries,
                 background_tasks, conc_vars, store_vars, disease_vars>>

\* VoiceQueryRequest: query is a required str, with no further constraint
VoiceQueryRequest_valid(body) == body.json /\ body.has_query

\* api.routes.handle_voice_query of the async service
handle_voice_query(body) ==
  /\ handled < MaxRequests
  /\ handled' = handled + 1
  /\ IF ~VoiceQueryRequest_valid(body)
     THEN \* request validation fails before the handler runs
          /\ http' = [app |-> "fastapi", body |-> body, status |-> 422,
                      payload |-> [detail |-> "validation error"],
                      invoked |-> FALSE]
          /\ UNCHANGED background_tasks
     ELSE LET response == process_query(voice_service, body.query)
          IN  /\ background_tasks' =
                   Append(background_tasks,
                          [query |-> body.query, response |-> response])
              /\ http' = [app |-> "fastapi", body |-> body, status |-> 200,
                          payload |-> [response |-> response],
                          invoked |-> TRUE]
  /\ UNCHANGED <<voice_service, client_vars, flask_voice_queries,
                 fastapi_user_queries, conc_vars, store_vars, disease_vars>>

\* variant: the task stays queued after it ran
RunBackgroundTask_kept(i, commit_ok) ==
  /\ i \in 1..Len(background_tasks)
  /\ fastapi_user_queries' =
       IF commit_ok
       THEN save_voice_query(fastapi_user_queries, background_tasks[i].query,
                             background_tasks[i].response)
       ELSE fastapi_user_queries
  /\ UNCHANGED <<voice_service, client_vars, flask_voice_queries, handled, http,
                 background_tasks, conc_vars, store_vars, disease_vars>>

\* a task added with background_tasks.add_task runs after its response was
\* produced: db_manager.save_voice_query(request.query, response)
RunBackgroundTask(i, commit_ok) ==
  /\ i \in 1..Len(background_tasks)
  /\ background_tasks' =
       SubSeq(background_tasks, 1, i - 1)
         \o SubSeq(background_tasks, i + 1, Len(background_tasks))
  /\ fastapi_user_queries' =
       IF commit_ok
       THEN save_voice_query(fastapi_user_queries, background_tasks[i].query,
                             background_tasks[i].response)
       ELSE fastapi_user_queries
  /\ UNCHANGED <<voice_service, client_vars, flask_voice_queries, handled, http,
                 conc_vars, store_vars, disease_vars>>

(***************************************************************************)
(* VoiceAssistantService.get_help_response and the /help endpoint          *)
(***************************************************************************)
\* variant: the help also lists the categories of the keyword table
get_help_response_with_categories(self) ==
  [features |-> <<
      "\\U0001F324\\uFE0F Weather Information - Get current weather for any location",
      "\\U0001F4B0 Market Prices - Check latest vegetable and fruit prices",
      "\\U0001F52C Disease Detection - Upload plant photos for disease diagnosis",
      "\\U0001F3A4 Voice Assistant - Ask questions about farming",
      "\\U0001F4CA Analytics - View usage statistics and history"
    >>,
   sample_queries |-> <<
      "What is the weather like today?",
      "Show me tomato prices",
      "My plant leaves are turning yellow",
      "What fertilizer should I use for corn?",
      "How to manage pests in my crop?",
      "What is the best soil pH for vegetables?"
    >>,
   categories |-> [i \in 1..Len(self.query_patterns) |->
                     self.query_patterns[i].category]]

get_help_response(self) ==
  [features |-> <<
      "\\U0001F324\\uFE0F Weather Information - Get current weather for any location",
      "\\U0001F4B0 Market Prices - Check latest vegetable and fruit prices",
      "\\U0001F52C Disease Detection - Upload plant photos for disease diagnosis",
      "\\U0001F3A4 Voice Assistant - Ask questions about farming",
      "\\U0001F4CA Analytics - View usage statistics and history"
    >>,
   sample_queries |-> <<
      "What is the weather like today?",
      "Show me tomato prices",
      "My plant leaves are turning yellow",
      "What fertilizer should I use for corn?",
      "How to manage pests in my crop?",
      "What is the best soil pH for vegetables?"
    >>]

\* api.routes.get_help of the async service
get_help ==
  /\ handled < MaxRequests
  /\ handled' = handled + 1
  /\ http' = [app |-> "fastapi_help", body |-> [json |-> FALSE],
              status |-> 200, payload |-> get_help_response(voice_service),
              invoked |-> FALSE]
  /\ UNCHANGED <<voice_service, client_vars, flask_voice_queries,
                 fastapi_user_queries, background_tasks, conc_vars, store_vars,
                 disease_vars>>

HttpNext ==
  \/ \E body \in RequestBodies, commit_ok \in BOOLEAN :
        process_voice_query(body, commit_ok)
  \/ \E body \in RequestBodies : handle_voice_query(body)
  \/ get_help
  \/ \E i \in 1..MaxRequests, commit_ok \in BOOLEAN :
        RunBackgroundTask(i, commit_ok)

HttpSpec == Init /\ [][HttpNext]_vars

(***************************************************************************)
(* C10: in every HTTP voice-query handler, a request whose query is        *)
(* missing, empty or blank is answered with a client error (4xx) without   *)
(* process_query being invoked, and no row is stored for it.               *)
(***************************************************************************)
\* the body is a JSON object whose query is missing, empty or blank
BlankQuery(body) ==
  /\ body.json
  /\ (~body.has_query \/ strip(body.query) = <<>>)

C10_BlankRejected ==
  /\ (http.app # "none" /\ BlankQuery(http.body))
       => (http.status \in 400..499 /\ ~http.invoked)
  /\ \A i \in 1..Len(flask_voice_queries) :
        strip(flask_voice_queries[i].query) # <<>>
  /\ \A i \in 1..Len(fastapi_user_queries) :
        strip(fastapi_user_queries[i].query) # <<>>

(***************************************************************************)
(* Concurrent calls of process_query on the global instance.  Each thread  *)
(* runs the statements of process_query one at a time; query_lower,        *)
(* matches, the loop position and the result are locals of the call, the   *)
(* two tables are read from the shared instance.                           *)
(***************************************************************************)
ConcTexts ==
  {Text_SoilPrice, Text_RepeatedWeather, Text_Noise, Text_HelloFertilizer}

\* process_query is entered:  query_lower = query.lower().strip()
Call(t, q) ==
  /\ call[t].pc = "idle"
  /\ call' = [call EXCEPT ![t] =
                [@ EXCEPT !.pc = "greeting", !.query = q,
                          !.query_lower = strip(lower(q))]]
  /\ UNCHANGED <<voice_service, client_vars, http_vars, disease_vars, store_vars>>

\* if self._is_greeting(query_lower): return self.responses['greeting']
\* else  matches = {}  and the scoring loop starts
CheckGreeting(t) ==
  /\ call[t].pc = "greeting"
  /\ call' = [call EXCEPT ![t] =
                IF _is_greeting(@.query_lower)
                THEN [@ EXCEPT !.pc = "done",
                               !.result = voice_service.responses["greeting"]]
                ELSE [@ EXCEPT !.pc = "scoring", !.matches = <<>>, !.i = 1]]
  /\ UNCHANGED <<voice_service, client_vars, http_vars, disease_vars, store_vars>>

\* variant: matches is kept on the instance and shared by all calls
ScoreStep_shared(t) ==
  /\ call[t].pc = "scoring"
  /\ call[t].i <= Len(voice_service.query_patterns)
  /\ LET p == voice_service.query_patterns[call[t].i]
         n == match_count(p.keywords, call[t].query_lower)
         shared == IF "matches" \in DOMAIN voice_service
                   THEN voice_service.matches ELSE <<>>
         new == IF n > 0
                THEN Append(shared, [category |-> p.category, match_count |-> n])
                ELSE shared
     IN  /\ voice_service' =
              [query_patterns |-> voice_service.query_patterns,
               responses |-> voice_service.responses, matches |-> new]
         /\ call' = [call EXCEPT ![t] =
                       [@ EXCEPT !.i = @ + 1, !.matches = new]]
  /\ UNCHANGED <<client_vars, http_vars, disease_vars, store_vars>>

\* one iteration of the scoring loop, for the category at position i
ScoreStep(t) ==
  /\ call[t].pc = "scoring"
  /\ call[t].i <= Len(voice_service.query_patterns)
  /\ LET p == voice_service.query_patterns[call[t].i]
         n == match_count(p.keywords, call[t].query_lower)
     IN  call' = [call EXCEPT ![t] =
                    [@ EXCEPT !.i = @ + 1,
                              !.matches =
                                 IF n > 0
                                 THEN Append(@, [category |-> p.category,
                                                 match_count |-> n])
                                 ELSE @]]
  /\ UNCHANGED <<voice_service, client_vars, http_vars, disease_vars, store_vars>>

\* after the loop: the response of the best category, or the default one
Select(t) ==
  /\ call[t].pc = "scoring"
  /\ call[t].i > Len(voice_service.query_patterns)
  /\ call' = [call EXCEPT ![t] =
                [@ EXCEPT !.pc = "done",
                          !.result =
                             IF call[t].matches # <<>>
                             THEN voice_service.responses[max_key(call[t].matches)]
                             ELSE voice_service.responses["default"]]]
  /\ UNCHANGED <<voice_service, client_vars, http_vars, disease_vars, store_vars>>

ConcNext ==
  \E t \in Threads :
     \/ \E q \in ConcTexts : Call(t, q)
     \/ CheckGreeting(t)
     \/ ScoreStep(t)
     \/ Select(t)

ConcSpec == Init /\ [][ConcNext]_vars

(***************************************************************************)
(* C11: under every interleaving of concurrent process_query calls on the  *)
(* shared instance, each call returns what it returns when run alone; no   *)
(* step of a call writes the instance or the locals of another call.       *)
(***************************************************************************)
C11_Reentrant ==
  /\ [](\A t \in Threads :
          call[t].pc = "done"
            => call[t].result =
                 process_query([query_patterns |-> query_patterns,
                                responses |-> responses], call[t].query))
  /\ [][/\ voice_service' = voice_service
        /\ \A t \in Threads :
              call'[t] # call[t]
                => \A u \in Threads \ {t} : call'[u] = call[u]]_vars

\* two calls with different texts ran together; one finished with the
\* default response while the other, with two scored categories, was still
\* in its scoring loop
C11_Witness ==
  \E t, u \in Threads :
     /\ call[t].pc = "done"
     /\ call[t].query = Text_Noise
     /\ call[t].result = responses["default"]
     /\ call[u].pc = "scoring"
     /\ call[u].query = Text_RepeatedWeather
     /\ Len(call[u].matches) = 2

(***************************************************************************)
(* C12: in every reachable state every category of the keyword table has   *)
(* a non-empty list of non-empty lowercase triggers, the keyword table     *)
(* has no entry for greeting or default, and the response table has one    *)
(* non-empty response for exactly the keyword-table categories, greeting   *)
(* and default.                                                            *)
(***************************************************************************)
UpperCaseLetters == {UpperCase[i] : i \in 1..Len(UpperCase)}

IsLowercase(t) == \A j \in 1..Len(t) : t[j] \notin UpperCaseLetters

C12_TablesWellFormed ==
  LET qp == voice_service.query_patterns
      rs == voice_service.responses
      cats == {qp[i].category : i \in 1..Len(qp)}
  IN  /\ qp # <<>>
      /\ \A i \in 1..Len(qp) :
            /\ qp[i].keywords # <<>>
            /\ \A j \in 1..Len(qp[i].keywords) :
                  /\ qp[i].keywords[j] # <<>>
                  /\ IsLowercase(qp[i].keywords[j])
      /\ \A i, j \in 1..Len(qp) : qp[i].category = qp[j].category => i = j
      /\ "greeting" \notin cats
      /\ "default" \notin cats
      /\ DOMAIN rs = cats \cup {"greeting", "default"}
      /\ \A c \in DOMAIN rs : rs[c] # ""

\* the tables after the same text was answered twice
C12_Witness ==
  /\ calls >= 2
  /\ last.called
  /\ last.response = responses["prices"]
  /\ Len(voice_service.query_patterns) = 8
  /\ Cardinality(DOMAIN voice_service.responses) = 10

(***************************************************************************)
(* C13: for each handled voice query save_voice_query runs at most once,   *)
(* only after process_query has returned, and stores exactly the string    *)
(* process_query returned for that request.                                *)
(***************************************************************************)
RemoveAt(seq, i) == SubSeq(seq, 1, i - 1) \o SubSeq(seq, i + 1, Len(seq))

StoredOrPending ==
  Len(flask_voice_queries) + Len(fastapi_user_queries) + Len(background_tasks)

C13_PersistenceFollowsCore ==
  /\ [](StoredOrPending <= handled)
  /\ [][/\ flask_voice_queries' # flask_voice_queries
             => /\ http'.app = "flask"
                /\ http'.invoked
                /\ handled' = handled + 1
                /\ \E q \in {strip(http'.body.query)} :
                      flask_voice_queries' =
                        Append(flask_voice_queries,
                               [query |-> q,
                                response |-> process_query(voice_service, q)])
        /\ Len(background_tasks') > Len(background_tasks)
             => /\ http'.app = "fastapi"
                /\ http'.invoked
                /\ handled' = handled + 1
                /\ fastapi_user_queries' = fastapi_user_queries
                /\ background_tasks' =
                     Append(background_tasks,
                            [query |-> http'.body.query,
                             response |-> process_query(voice_service,
                                                        http'.body.query)])
        /\ fastapi_user_queries' # fastapi_user_queries
             => \E i \in 1..Len(background_tasks) :
                   /\ fastapi_user_queries' =
                        Append(fastapi_user_queries, background_tasks[i])
                   /\ background_tasks' = RemoveAt(background_tasks, i)]_vars

\* both applications have stored the answer to 'soil price'
C13_Witness ==
  /\ flask_voice_queries =
       <<[query |-> Text_SoilPrice, response |-> responses["prices"]]>>
  /\ fastapi_user_queries =
       <<[query |-> Text_SoilPrice, response |-> responses["prices"]]>>
  /\ background_tasks = <<>>

(***************************************************************************)
(* C14: a successful voice-query HTTP response carries both the submitted  *)
(* query and the response string, the response being exactly what          *)
(* process_query returned for that query.                                  *)
(***************************************************************************)
VoiceSuccess == http.app \in {"flask", "fastapi"} /\ http.status = 200

\* the fields of the response envelope: under 'data' in the synchronous
\* app, at top level in the async service
Carried == IF "data" \in DOMAIN http.payload THEN http.payload.data
           ELSE http.payload

\* C14 as stated, for both applications
C14_CarriesQueryAndResponse ==
  VoiceSuccess =>
    /\ "query" \in DOMAIN Carried
    /\ Carried.query \in {http.body.query, strip(http.body.query)}
    /\ "response" \in DOMAIN Carried
    /\ Carried.response = process_query(voice_service, http.body.query)

\* C14 amended: the response string is carried by both applications; the
\* query, stripped, only by the synchronous one
C14_CarriesResponse ==
  VoiceSuccess =>
    /\ "response" \in DOMAIN Carried
    /\ Carried.response = process_query(voice_service, http.body.query)
    /\ http.app = "flask"
         => /\ "query" \in DOMAIN Carried
            /\ Carried.query = strip(http.body.query)
    /\ http.app = "fastapi" => DOMAIN http.payload = {"response"}

\* the synchronous app answered '  WEATHER Today  ' and echoed it stripped
C14_Witness ==
  /\ VoiceSuccess
  /\ http.app = "flask"
  /\ http.body.query = Text_WeatherTodayPadded
  /\ Carried.query # http.body.query
  /\ Carried.response = responses["weather"]

(***************************************************************************)
(* C15: get_help_response takes no input and returns a structure with      *)
(* exactly the fields features and sample_queries, the same on every       *)
(* call, whatever process_query calls came before.                         *)
(***************************************************************************)
IsTextList(l, n) == Len(l) = n /\ \A i \in 1..n : l[i] # ""

\* what a service that has answered nothing yet returns
FreshHelp ==
  get_help_response([query_patterns |-> query_patterns, responses |-> responses])

C15_HelpFixed ==
  /\ [](http.app = "fastapi_help"
          => /\ DOMAIN http.payload = {"features", "sample_queries"}
             /\ IsTextList(http.payload.features, 5)
             /\ IsTextList(http.payload.sample_queries, 6)
             /\ http.payload.sample_queries[1] = "What is the weather like today?"
             /\ http.payload = FreshHelp)
  /\ [][(http.app = "fastapi_help" /\ http'.app = "fastapi_help")
          => http'.payload = http.payload]_vars

\* help was asked after a voice query had been answered and stored
C15_Witness ==
  /\ http.app = "fastapi_help"
  /\ flask_voice_queries # <<>>
  /\ DOMAIN http.payload = {"features", "sample_queries"}

(***************************************************************************)
(* C16: every trigger is effective: for each category of the keyword       *)
(* table and each of its triggers there is a query containing the trigger  *)
(* that process_query answers with the category's response.                *)
(***************************************************************************)
\* the queries tried for trigger t of category c: t alone, and t followed
\* by one more trigger of c (which lifts c's count above any other's)
QueriesWith(c, t) ==
  {t} \cup {t \o <<" ">> \o k : k \in Triggers(c)}

Effective(c, t) ==
  \E q \in QueriesWith(c, t) :
    /\ Occurs(t, q)
    /\ process_query(voice_service, q) = voice_service.responses[c]

\* a trigger that holds a greeting can never be effective: every query
\* containing it is answered with the greeting
Shadowed(t) == \E i \in 1..Len(greetings) : Occurs(greetings[i], t)

C16_EveryTriggerEffective ==
  \A c \in KeywordCategories : \A t \in Triggers(c) : Effective(c, t)

\* the shadowed triggers are the only ineffective ones
OnlyShadowedIneffective ==
  \A c \in KeywordCategories : \A t \in Triggers(c) :
    Effective(c, t) <=> ~Shadowed(t)

(***************************************************************************)
(* The responder variant of attached_assets/voice_service_1753515446982.py *)
(* (class VoiceAssistantService again; its definitions are prefixed        *)
(* attached_ here)                                                         *)
(***************************************************************************)
attached_query_patterns ==
  <<
    [category |-> "weather", keywords |-> <<
       <<"w","e","a","t","h","e","r">>,
       <<"t","e","m","p","e","r","a","t","u","r","e">>,
       <<"r","a","i","n">>,
       <<"c","l","i","m","a","t","e">>,
       <<"f","o","r","e","c","a","s","t">>,
       <<"s","u","n","n","y">>,
       <<"c","l","o","u","d","y">>
     >>],
    [category |-> "prices", keywords |-> <<
       <<"p","r","i","c","e">>,
       <<"c","o","s","t">>,
       <<"m","a","r","k","e","t">>,
       <<"s","e","l","l">>,
       <<"b","u","y">>,
       <<"r","a","t","e">>,
       <<"e","x","p","e","n","s","i","v","e">>,
       <<"c","h","e","a","p">>
     >>],
    [category |-> "disease", keywords |-> <<
       <<"d","i","s","e","a","s","e">>,
       <<"s","i","c","k">>,
       <<"p","r","o","b","l","e","m">>,
       <<"l","e","a","f">>,
       <<"p","l","a","n","t">>,
       <<"c","r","o","p">>,
       <<"i","n","f","e","c","t","i","o","n">>,
       <<"p","e","s","t">>
     >>],
    [category |-> "fertilizer", keywords |-> <<
       <<"f","e","r","t","i","l","i","z","e","r">>,
       <<"n","u","t","r","i","e","n","t">>,
       <<"s","o","i","l">>,
       <<"c","o","m","p","o","s","t">>,
       <<"m","a","n","u","r","e">>,
       <<"n","i","t","r","o","g","e","n">>
     >>],
    [category |-> "cultivation", keywords |-> <<
       <<"s","e","e","d">>,
       <<"p","l","a","n","t","i","n","g">>,
       <<"g","r","o","w","i","n","g">>,
       <<"c","u","l","t","i","v","a","t","i","o","n">>,
       <<"h","a","r","v","e","s","t">>,
       <<"f","a","r","m","i","n","g">>
     >>]
  >>

attached_responses ==
     "weather" :> "To get weather information, please provide your city name or enable location access in the Weather tab."
  @@ "prices" :> "Check the Market Prices tab for current rates of vegetables and fruits in your area."
  @@ "disease" :> "For plant disease detection, please take a clear photo of the affected plant leaves and upload it in the Disease Detection tab."
  @@ "fertilizer" :> "For soil and fertilizer advice, consider getting a soil test and consult with local agricultural experts. Organic compost is generally recommended for most crops."
  @@ "cultivation" :> "For seed and cultivation advice, check with your local agricultural extension office for region-specific recommendations based on your soil type and climate."
  @@ "greeting" :> "Hello! I'm your GrowWise assistant. I can help you with weather information, market prices, plant disease detection, and general farming queries."
  @@ "default" :> "I can help you with weather information, market prices, plant disease detection, and general farming queries. Please be more specific about what you'd like to know!"

attached_greetings ==
  <<
    <<"h","e","l","l","o">>,
    <<"h","i">>,
    <<"h","e","y">>,
    <<"g","o","o","d"," ","m","o","r","n","i","n","g">>,
    <<"g","o","o","d"," ","a","f","t","e","r","n","o","o","n">>,
    <<"g","o","o","d"," ","e","v","e","n","i","n","g">>
  >>

\* the module's global instance
attached_voice_service ==
  [query_patterns |-> attached_query_patterns, responses |-> attached_responses]

attached__is_greeting(q) ==
  \E i \in 1..Len(attached_greetings) : Contains(q, attached_greetings[i])

\* any(keyword in query_lower for keyword in keywords)
attached_any_keyword(keywords, query_lower) ==
  \E j \in 1..Len(keywords) : Contains(query_lower, keywords[j])

\* variant: the category with the most matching keywords is selected
attached_process_query_scoring(self, q) ==
  LET query_lower == strip(lower(q))
      matches == matches_of(self, query_lower)
  IN  IF attached__is_greeting(query_lower) THEN self.responses["greeting"]
      ELSE IF matches # <<>> THEN self.responses[max_key(matches)]
      ELSE self.responses["default"]

\* the loop over query_patterns.items() from item i on: the first category
\* with a keyword in the text returns
RECURSIVE attached_first_match(_, _, _)
attached_first_match(self, query_lower, i) ==
  IF i > Len(self.query_patterns) THEN self.responses["default"]
  ELSE IF attached_any_keyword(self.query_patterns[i].keywords, query_lower)
       THEN self.responses[self.query_patterns[i].category]
       ELSE attached_first_match(self, query_lower, i + 1)

attached_process_query(self, q) ==
  LET query_lower == strip(lower(q))
  IN  IF attached__is_greeting(query_lower) THEN self.responses["greeting"]
      ELSE attached_first_match(self, query_lower, 1)

AttachedFragments ==
  {
    <<"h","e","l","l","o",","," ">>,
    <<"w","e","a","t","h","e","r"," ","w","e","a","t","h","e","r"," ","w","e","a","t","h","e","r">>,
    <<" ","p","r","i","c","e"," ","c","o","s","t">>,
    <<"s","o","i","l">>,
    <<"m","y"," ","p","l","a","n","t"," ","i","s"," ","s","i","c","k">>,
    <<"a","s","d","k","j","a","s","d">>,
    <<" "," ","S","E","E","D"," ","R","a","t","e">>,
    <<"t","h","e"," ","p","r","i","c","e"," ","o","f"," ","r","a","i","n">>
  }

\* one call process_query(query) on the variant's instance
attached_ProcessQuery ==
  /\ calls < MaxCalls
  /\ calls' = calls + 1
  /\ last' = [called |-> TRUE, query |-> query,
              response |-> attached_process_query(attached_voice_service, query)]
  /\ UNCHANGED <<voice_service, query, nfrag, http_vars, conc_vars, store_vars,
                 disease_vars>>

AttachedNext ==
  \/ \E f \in AttachedFragments : Say(f)
  \/ attached_ProcessQuery

AttachedSpec == Init /\ [][AttachedNext]_vars

(***************************************************************************)
(* C17: the variant answers with the greeting when a greeting is present,  *)
(* otherwise with the first declared category that has a trigger in the    *)
(* text, otherwise with the default; how many triggers a category has in   *)
(* the text never matters.                                                 *)
(***************************************************************************)
AttachedTriggerCount(i, s) ==
  Cardinality({j \in 1..Len(attached_query_patterns[i].keywords) :
                 Occurs(attached_query_patterns[i].keywords[j], s)})

AttachedTriggered(s) ==
  {i \in 1..Len(attached_query_patterns) : AttachedTriggerCount(i, s) > 0}

AttachedHasGreeting(s) ==
  \E i \in 1..Len(attached_greetings) : Occurs(attached_greetings[i], s)

AttachedRuleCategory(s) ==
  IF AttachedHasGreeting(s) THEN "greeting"
  ELSE IF AttachedTriggered(s) = {} THEN "default"
  ELSE LET first == CHOOSE i \in AttachedTriggered(s) :
                      \A k \in AttachedTriggered(s) : i <= k
       IN  attached_query_patterns[first].category

C17_FirstMatchingCategory ==
  last.called =>
    last.response = attached_responses[AttachedRuleCategory(Normalized(last.query))]

\* 'weather weather weather price cost': prices has two triggers in the
\* text, weather one, and weather, declared first, is the answer
C17_Witness ==
  /\ last.called
  /\ last.query = Text_RepeatedWeather
  /\ AttachedTriggerCount(1, Normalized(last.query)) = 1
  /\ AttachedTriggerCount(2, Normalized(last.query)) = 2
  /\ last.response = attached_responses["weather"]
  /\ last.response # attached_responses["prices"]

(***************************************************************************)
(* C18: the synchronous app answers a voice query with success only after  *)
(* the (query, response) row is committed, and a failed commit makes the   *)
(* request an error; the async service only schedules the row as a         *)
(* background task, which runs after the response and whose failure        *)
(* leaves the response as the client received it.                          *)
(***************************************************************************)
FlaskStep == handled' = handled + 1 /\ http'.app = "flask"

FastapiStep == handled' = handled + 1 /\ http'.app = "fastapi"

BackgroundStep ==
  \/ fastapi_user_queries' # fastapi_user_queries
  \/ Len(background_tasks') < Len(background_tasks)

C18_CommitOrdering ==
  [][/\ (FlaskStep /\ http'.status = 200)
          => flask_voice_queries' =
               Append(flask_voice_queries,
                      [query |-> http'.payload.data.query,
                       response |-> http'.payload.data.response])
     /\ (FlaskStep /\ http'.invoked /\ flask_voice_queries' = flask_voice_queries)
          => (http'.status = 500 /\ ~http'.payload.success)
     /\ (FastapiStep /\ http'.status = 200)
          => /\ fastapi_user_queries' = fastapi_user_queries
             /\ Len(background_tasks') = Len(background_tasks) + 1
             /\ background_tasks'[Len(background_tasks')].response
                  = http'.payload.response
     /\ BackgroundStep => (http' = http /\ handled' = handled)]_vars

\* the async service stored a row after its response; then a commit of the
\* synchronous app failed and its request ended as an error
C18_Witness ==
  /\ fastapi_user_queries # <<>>
  /\ http.app = "flask"
  /\ http.invoked
  /\ http.status = 500
  /\ flask_voice_queries = <<>>

(***************************************************************************)
(* DiseaseDetectionService of the synchronous app (colour heuristic)       *)
(***************************************************************************)
disease_patterns ==
     "brown_spots" :> [name |-> "Possible Brown Spot Disease",
        treatment |-> "Apply copper-based fungicide spray. Remove affected leaves and improve air circulation."]
  @@ "yellow_leaves" :> [name |-> "Possible Yellowing/Chlorosis",
        treatment |-> "Check for nutrient deficiency (nitrogen). Ensure proper watering and fertilization."]
  @@ "dark_patches" :> [name |-> "Possible Blight or Bacterial Infection",
        treatment |-> "Remove infected parts immediately. Apply bactericide and ensure good drainage."]
  @@ "white_patches" :> [name |-> "Possible Powdery Mildew",
        treatment |-> "Improve air circulation. Apply fungicide spray and avoid overhead watering."]
  @@ "healthy" :> [name |-> "Plant Appears Healthy",
        treatment |-> "Continue with regular care and monitoring. Maintain proper watering and fertilization."]

\* average channel values used as inputs: the values around the thresholds
\* 100, 150 and 200 of the rules, and the ends of the range
ChannelSamples == {0, 60, 99, 100, 150, 151, 200, 201, 255}

\* _analyze_colors: the two ratios are float quotients by the channel sum,
\* so a zero sum raises ZeroDivisionError before any rule is tried.  For
\* whole averages  g / sum > 0.4  is  5 g > 2 sum  and  r / sum > 0.35  is
\* 20 r > 7 sum  (the quotients differ from the bounds by far more than a
\* rounding error).  Confidences 85.0 .. 50.0 are written as integers.
_analyze_colors(avg_r, avg_g, avg_b) ==
  LET sum == avg_r + avg_g + avg_b
      green_ratio_gt == 5 * avg_g > 2 * sum
      red_ratio_gt == 20 * avg_r > 7 * sum
  IN  IF sum = 0
      THEN [raised |-> TRUE, pattern |-> "ZeroDivisionError", confidence |-> 0]
      ELSE IF green_ratio_gt /\ avg_g > avg_r /\ avg_g > avg_b
      THEN [raised |-> FALSE, pattern |-> "healthy", confidence |-> 85]
      ELSE IF red_ratio_gt /\ avg_r > avg_g
      THEN [raised |-> FALSE, pattern |-> "brown_spots", confidence |-> 75]
      ELSE IF avg_r > 150 /\ avg_g > 150 /\ avg_b < 100
      THEN [raised |-> FALSE, pattern |-> "yellow_leaves", confidence |-> 70]
      ELSE IF avg_r < 100 /\ avg_g < 100 /\ avg_b < 100
      THEN [raised |-> FALSE, pattern |-> "dark_patches", confidence |-> 65]
      ELSE IF avg_r > 200 /\ avg_g > 200 /\ avg_b > 200
      THEN [raised |-> FALSE, pattern |-> "white_patches", confidence |-> 60]
      ELSE [raised |-> FALSE, pattern |-> "healthy", confidence |-> 50]

\* the result analyze_image returns from its  except Exception  branch
analysis_error ==
  [disease |-> "analysis_error", confidence |-> 0,
   treatment |-> "Unable to analyze image. Please ensure the image shows clear plant leaves and try again.",
   formatted_name |-> "Analysis Error"]

\* uploaded bytes: what Image.open makes of them, and for an image the
\* channel means ImageStat.Stat computes
NotAnImage == [decodable |-> FALSE, mean |-> <<0, 0, 0>>]

ImageOf(r, g, b) == [decodable |-> TRUE, mean |-> <<r, g, b>>]

Images ==
  {NotAnImage, ImageOf(0, 0, 0), ImageOf(60, 150, 60), ImageOf(200, 100, 60),
   ImageOf(201, 201, 60), ImageOf(255, 255, 255)}

\* variant: errors of the analysis propagate to the caller
analyze_image_raising(image_data) ==
  LET colours == _analyze_colors(image_data.mean[1], image_data.mean[2],
                                 image_data.mean[3])
  IN  IF ~image_data.decodable \/ colours.raised
      THEN [raised |-> TRUE, result |-> analysis_error]
      ELSE [raised |-> FALSE,
            result |-> [disease |-> colours.pattern,
                        confidence |-> colours.confidence,
                        treatment |-> disease_patterns[colours.pattern].treatment,
                        formatted_name |-> disease_patterns[colours.pattern].name]]

\* analyze_image: any exception of the try block (Image.open on bytes that
\* are no image, the division in _analyze_colors) ends in the error result
analyze_image(image_data) ==
  LET colours == _analyze_colors(image_data.mean[1], image_data.mean[2],
                                 image_data.mean[3])
  IN  IF ~image_data.decodable \/ colours.raised
      THEN [raised |-> FALSE, result |-> analysis_error]
      ELSE [raised |-> FALSE,
            result |-> [disease |-> colours.pattern,
                        confidence |-> colours.confidence,
                        treatment |-> disease_patterns[colours.pattern].treatment,
                        formatted_name |-> disease_patterns[colours.pattern].name]]

(***************************************************************************)
(* routes.detect_disease of the synchronous app                            *)
(***************************************************************************)
ALLOWED_EXTENSIONS ==
  {<<"p","n","g">>, <<"j","p","g">>, <<"j","p","e","g">>, <<"g","i","f">>}

\* filename.rsplit('.', 1)[1]: the text after the last dot
after_last_dot(filename) ==
  LET dots == {i \in 1..Len(filename) : filename[i] = "."}
      last_dot == CHOOSE i \in dots : \A j \in dots : j <= i
  IN  SubSeq(filename, last_dot + 1, Len(filename))

\* variant: the extension is compared as written
allowed_file_case_sensitive(filename) ==
  /\ \E i \in 1..Len(filename) : filename[i] = "."
  /\ after_last_dot(filename) \in ALLOWED_EXTENSIONS

allowed_file(filename) ==
  /\ \E i \in 1..Len(filename) : filename[i] = "."
  /\ lower(after_last_dot(filename)) \in ALLOWED_EXTENSIONS

Filenames ==
  {<<>>,
   <<"l","e","a","f",".","p","n","g">>,
   <<"l","e","a","f",".","J","P","G">>,
   <<"l","e","a","f",".","t","x","t">>,
   <<"l","e","a","f">>,
   <<"l","e","a","f",".","p","n","g",".","e","x","e">>,
   <<"l","e","a","f",".","t","a","r",".","G","i","f">>,
   <<"l","e","a","f",".","J","p","e","g">>,
   <<"p","n","g">>,
   <<"l","e","a","f",".">>}

\* multipart requests: with or without an 'image' part
Uploads ==
  {[has_image |-> FALSE, filename |-> <<>>, data |-> NotAnImage]}
    \cup {[has_image |-> TRUE, filename |-> f, data |-> NotAnImage] : f \in Filenames}
    \cup {[has_image |-> TRUE, filename |-> <<"l","e","a","f",".","p","n","g">>,
           data |-> d] : d \in Images}

\* DatabaseManager.save_prediction of either database manager
save_prediction(table, result) ==
  Append(table, [disease |-> result.disease, confidence |-> result.confidence,
                 treatment |-> result.treatment])

FlaskReply(upload, status, payload, invoked) ==
  [app |-> "flask_disease", body |-> upload, status |-> status,
   payload |-> payload, invoked |-> invoked]

\* detect_disease: the three 400 replies, then analyze_image and
\* save_prediction of whatever it returned; an exception (here of the
\* commit) is caught and answered with 500
detect_disease(upload, commit_ok) ==
  /\ handled < MaxRequests
  /\ handled' = handled + 1
  /\ IF ~upload.has_image
     THEN /\ http' = FlaskReply(upload, 400,
                       [success |-> FALSE, error |-> "No image file provided"], FALSE)
          /\ UNCHANGED flask_predictions
     ELSE IF upload.filename = <<>>
     THEN /\ http' = FlaskReply(upload, 400,
                       [success |-> FALSE, error |-> "No file selected"], FALSE)
          /\ UNCHANGED flask_predictions
     ELSE IF ~allowed_file(upload.filename)
     THEN /\ http' = FlaskReply(upload, 400,
                       [success |-> FALSE, error |-> "Invalid file type. Please upload PNG, JPG, JPEG, or GIF files."], FALSE)
          /\ UNCHANGED flask_predictions
     ELSE LET analysis == analyze_image(upload.data)
          IN  IF analysis.raised \/ ~commit_ok
              THEN /\ http' = FlaskReply(upload, 500,
                                [success |-> FALSE, error |-> "exception"], TRUE)
                   /\ UNCHANGED flask_predictions
              ELSE /\ flask_predictions' =
                        save_prediction(flask_predictions, analysis.result)
                   /\ http' = FlaskReply(upload, 200,
                                [success |-> TRUE, data |-> analysis.result], TRUE)
  /\ UNCHANGED <<voice_service, client_vars, flask_voice_queries,
                 fastapi_user_queries, background_tasks, conc_vars, store_vars,
                 model_available, fastapi_predictions, prediction_tasks, colors>>

(***************************************************************************)
(* DiseaseDetectionService of the async service (CNN) and its /predict     *)
(* handler                                                                 *)
(***************************************************************************)
\* DISEASE_CLASSES, index 0 first
DISEASE_CLASSES ==
  <<"Apple___Apple_scab", "Apple___Black_rot", "Apple___Cedar_apple_rust",
    "Apple___healthy", "Background_without_leaves", "Blueberry___healthy",
    "Cherry___Powdery_mildew", "Cherry___healthy",
    "Corn___Cercospora_leaf_spot Gray_leaf_spot",
    "Corn___Common_rust", "Corn___Northern_Leaf_Blight", "Corn___healthy",
    "Grape___Black_rot", "Grape___Esca_(Black_Measles)",
    "Grape___Leaf_blight_(Isariopsis_Leaf_Spot)",
    "Grape___healthy", "Orange___Haunglongbing_(Citrus_greening)",
    "Peach___Bacterial_spot",
    "Peach___healthy", "Pepper,_bell___Bacterial_spot", "Pepper,_bell___healthy",
    "Potato___Early_blight", "Potato___Late_blight", "Potato___healthy",
    "Raspberry___healthy", "Soybean___healthy", "Squash___Powdery_mildew",
    "Strawberry___Leaf_scorch", "Strawberry___healthy", "Tomato___Bacterial_spot",
    "Tomato___Early_blight", "Tomato___Late_blight", "Tomato___Leaf_Mold",
    "Tomato___Septoria_leaf_spot",
    "Tomato___Spider_mites Two-spotted_spider_mite",
    "Tomato___Target_Spot", "Tomato___Tomato_Yellow_Leaf_Curl_Virus",
    "Tomato___Tomato_mosaic_virus", "Tomato___healthy">>

TREATMENT_RECOMMENDATIONS ==
     "Apple___Apple_scab" :> "Apply fungicide spray during wet weather. Remove fallen leaves and improve air circulation."
  @@ "Apple___Black_rot" :> "Prune infected branches, apply copper-based fungicide, and remove mummified fruits."
  @@ "Apple___Cedar_apple_rust" :> "Remove nearby cedar trees if possible, apply preventive fungicide sprays."
  @@ "Tomato___Late_blight" :> "Remove affected leaves immediately, apply copper fungicide, ensure good drainage."
  @@ "Tomato___Early_blight" :> "Apply fungicide spray, remove lower leaves, and ensure proper spacing for air circulation."
  @@ "Tomato___Bacterial_spot" :> "Use copper-based bactericide, avoid overhead watering, remove infected plants."
  @@ "Corn___Common_rust" :> "Use resistant varieties, apply fungicide if infection is severe, remove crop residues."
  @@ "Corn___Northern_Leaf_Blight" :> "Rotate crops, use resistant varieties, apply fungicide if needed."
  @@ "Grape___Black_rot" :> "Prune for air circulation, apply preventive fungicide sprays, remove infected berries."
  @@ "Potato___Late_blight" :> "Apply copper-based fungicide, avoid overhead watering, harvest early if needed."
  @@ "Potato___Early_blight" :> "Rotate crops, apply fungicide, remove infected foliage."
  @@ "healthy" :> "Plant appears healthy! Continue with regular care and monitoring."
  @@ "Background_without_leaves" :> "Please take a clearer photo showing plant leaves for accurate diagnosis."

\* the result predict_disease returns when no model is loaded
model_unavailable ==
  [disease |-> "model_unavailable", confidence |-> 0,
   treatment |-> "Disease detection model is currently unavailable. Please ensure the model file is present and try again.",
   formatted_name |-> "Model Unavailable"]

\* what the network may answer for an image: the index of a class and a
\* confidence in percent.  The trained weights are no part of the source,
\* so both are inputs.
PredictedIndexes == {0, 3, 4, 38}

Confidences == {41, 97}

\* _format_disease_name(disease_key), that is
\* disease_key.replace('___', ' - ').replace('_', ' '), for the classes of
\* PredictedIndexes
_format_disease_name ==
     "Apple___Apple_scab" :> "Apple - Apple scab"
  @@ "Apple___healthy" :> "Apple - healthy"
  @@ "Background_without_leaves" :> "Background without leaves"
  @@ "Tomato___healthy" :> "Tomato - healthy"

\* DiseaseDetectionService.predict_disease
predict_disease_result(available, image_bytes, predicted_idx, confidence) ==
  IF ~available
  THEN [raised |-> FALSE, result |-> model_unavailable]
  ELSE IF ~image_bytes.decodable
  THEN [raised |-> TRUE, result |-> model_unavailable]
  ELSE LET disease_key == DISEASE_CLASSES[predicted_idx + 1]
       IN  [raised |-> FALSE,
            result |->
              [disease |-> disease_key, confidence |-> confidence,
               treatment |->
                 IF disease_key \in DOMAIN TREATMENT_RECOMMENDATIONS
                 THEN TREATMENT_RECOMMENDATIONS[disease_key]
                 ELSE "Consult with local agricultural extension officer for specific treatment",
               formatted_name |-> _format_disease_name[disease_key]]]

ContentTypes == {"", "image/png", "text/plain"}

\* file.content_type.startswith('image/') for the content types used
is_image_content_type(content_type) == content_type = "image/png"

FastapiReply(file, status, payload, invoked) ==
  [app |-> "fastapi_predict", body |-> file, status |-> status,
   payload |-> payload, invoked |-> invoked]

\* api.routes.predict_disease: 400 unless the content type is an image
\* type; the result of the service, whatever it is, is scheduled for
\* save_prediction and returned; an HTTPException of the service is re-raised
predict_disease(file, predicted_idx, confidence) ==
  /\ handled < MaxRequests
  /\ handled' = handled + 1
  /\ IF ~is_image_content_type(file.content_type)
     THEN /\ http' = FastapiReply(file, 400,
                       [detail |-> "File must be an image"], FALSE)
          /\ UNCHANGED prediction_tasks
     ELSE LET prediction == predict_disease_result(model_available, file.data,
                                                   predicted_idx, confidence)
          IN  IF prediction.raised
              THEN /\ http' = FastapiReply(file, 500,
                                [detail |-> "Error processing image for disease detection"],
                                TRUE)
                   /\ UNCHANGED prediction_tasks
              ELSE /\ prediction_tasks' = Append(prediction_tasks, prediction.result)
                   /\ http' = FastapiReply(file, 200, prediction.result, TRUE)
  /\ UNCHANGED <<voice_service, client_vars, flask_voice_queries,
                 fastapi_user_queries, background_tasks, conc_vars, store_vars,
                 model_available, flask_predictions, fastapi_predictions, colors>>

\* the scheduled db_manager.save_prediction runs after the response; its
\* commit succeeds or fails
RunPredictionTask(i, commit_ok) ==
  /\ i \in 1..Len(prediction_tasks)
  /\ prediction_tasks' =
       SubSeq(prediction_tasks, 1, i - 1)
         \o SubSeq(prediction_tasks, i + 1, Len(prediction_tasks))
  /\ fastapi_predictions' =
       IF commit_ok
       THEN save_prediction(fastapi_predictions, prediction_tasks[i])
       ELSE fastapi_predictions
  /\ UNCHANGED <<voice_service, client_vars, flask_voice_queries,
                 fastapi_user_queries, background_tasks, conc_vars, store_vars, handled,
                 http, model_available, flask_predictions, colors>>

\* DatabaseManager.get_app_stats, the two fields about predictions: the
\* number of rows, and the number of rows of each disease
get_app_stats(predictions) ==
  [total_predictions |-> Len(predictions),
   common_diseases |->
     [d \in {predictions[i].disease : i \in 1..Len(predictions)} |->
        Cardinality({i \in 1..Len(predictions) : predictions[i].disease = d})]]

\* the model file may or may not have been loaded when the service started
DiseaseInit ==
  /\ InitExceptModel
  /\ model_available \in BOOLEAN

FilesSent ==
  {[content_type |-> c, data |-> NotAnImage] : c \in ContentTypes}
    \cup {[content_type |-> "image/png", data |-> ImageOf(60, 150, 60)]}

DiseaseNext ==
  \/ \E upload \in Uploads, commit_ok \in BOOLEAN : detect_disease(upload, commit_ok)
  \/ \E file \in FilesSent, predicted_idx \in PredictedIndexes,
        confidence \in Confidences :
       predict_disease(file, predicted_idx, confidence)
  \/ \E i \in 1..MaxRequests, commit_ok \in BOOLEAN : RunPredictionTask(i, commit_ok)

DiseaseSpec == DiseaseInit /\ [][DiseaseNext]_vars

(***************************************************************************)
(* C19: a prediction row is stored only for a successful analysis: the     *)
(* error results 'analysis_error' and 'model_unavailable' are never saved  *)
(* (nor scheduled for saving), so total_predictions and common_diseases    *)
(* never count them.                                                       *)
(***************************************************************************)
ErrorResults == {"analysis_error", "model_unavailable"}

SuccessfulRows(predictions) ==
  SelectSeq(predictions, LAMBDA row : row.disease \notin ErrorResults)

C19_OnlySuccessfulSaved ==
  /\ \A i \in 1..Len(flask_predictions) :
        flask_predictions[i].disease \notin ErrorResults
  /\ \A i \in 1..Len(fastapi_predictions) :
        fastapi_predictions[i].disease \notin ErrorResults
  /\ get_app_stats(flask_predictions).total_predictions
       = Len(SuccessfulRows(flask_predictions))
  /\ get_app_stats(fastapi_predictions).total_predictions
       = Len(SuccessfulRows(fastapi_predictions))
  /\ DOMAIN get_app_stats(flask_predictions).common_diseases \cap ErrorResults = {}
  /\ DOMAIN get_app_stats(fastapi_predictions).common_diseases \cap ErrorResults = {}

(***************************************************************************)
(* _analyze_colors applied to average channel values                       *)
(***************************************************************************)
AnalyzeColors(avg_r, avg_g, avg_b) ==
  /\ colors' = [analysed |-> TRUE, avg_r |-> avg_r, avg_g |-> avg_g,
                avg_b |-> avg_b,
                outcome |-> _analyze_colors(avg_r, avg_g, avg_b)]
  /\ UNCHANGED <<voice_service, client_vars, http_vars, conc_vars, store_vars,
                 model_available, flask_predictions, fastapi_predictions,
                 prediction_tasks>>

ColorNext ==
  \E avg_r \in ChannelSamples, avg_g \in ChannelSamples, avg_b \in ChannelSamples :
    AnalyzeColors(avg_r, avg_g, avg_b)

ColorSpec == Init /\ [][ColorNext]_vars

(***************************************************************************)
(* C20: for all average channel values r, g, b in 0..255 _analyze_colors   *)
(* returns, without raising, a pattern that is a key of disease_patterns   *)
(* and a confidence among 85, 75, 70, 65, 60, 50, as given by the first    *)
(* matching rule of the ordered rule list.                                 *)
(***************************************************************************)
\* the ordered rule list; the ratios g / (r + g + b) > 0.4 and
\* r / (r + g + b) > 0.35 are stated without division
RuleList(r, g, b) ==
  <<[matches |-> 10 * g > 4 * (r + g + b) /\ g > r /\ g > b,
     pattern |-> "healthy", confidence |-> 85],
    [matches |-> 100 * r > 35 * (r + g + b) /\ r > g,
     pattern |-> "brown_spots", confidence |-> 75],
    [matches |-> r > 150 /\ g > 150 /\ b < 100,
     pattern |-> "yellow_leaves", confidence |-> 70],
    [matches |-> r < 100 /\ g < 100 /\ b < 100,
     pattern |-> "dark_patches", confidence |-> 65],
    [matches |-> r > 200 /\ g > 200 /\ b > 200,
     pattern |-> "white_patches", confidence |-> 60],
    [matches |-> TRUE, pattern |-> "healthy", confidence |-> 50]>>

FirstMatchingRule(r, g, b) ==
  LET rules == RuleList(r, g, b)
      first == CHOOSE i \in 1..Len(rules) :
                 rules[i].matches /\ \A k \in 1..(i - 1) : ~rules[k].matches
  IN  rules[first]

Classified(c) ==
  /\ ~c.outcome.raised
  /\ c.outcome.pattern \in DOMAIN disease_patterns
  /\ c.outcome.confidence \in {85, 75, 70, 65, 60, 50}
  /\ c.outcome.pattern = FirstMatchingRule(c.avg_r, c.avg_g, c.avg_b).pattern
  /\ c.outcome.confidence = FirstMatchingRule(c.avg_r, c.avg_g, c.avg_b).confidence

C20_AnalyzeColorsTotal == colors.analysed => Classified(colors)

\* every triple but (0, 0, 0) is classified as the rule list says
NonBlackClassified ==
  (colors.analysed /\ colors.avg_r + colors.avg_g + colors.avg_b > 0)
    => Classified(colors)

(***************************************************************************)
(* analyze_image applied to uploaded bytes                                 *)
(***************************************************************************)
\* bytes that are no image, and an image for every triple of sampled means
AnalysedInputs ==
  {NotAnImage} \cup
  {ImageOf(r, g, b) : r \in ChannelSamples, g \in ChannelSamples,
                      b \in ChannelSamples}

AnalyzeImage(image_data) ==
  /\ image_analysis' = [analysed |-> TRUE, image_data |-> image_data,
                        returned |-> analyze_image(image_data)]
  /\ UNCHANGED <<voice_service, client_vars, http_vars, conc_vars, disease_vars,
                 file_vars, saver_vars, market_vars>>

AnalysisNext == \E image_data \in AnalysedInputs : AnalyzeImage(image_data)

AnalysisSpec == Init /\ [][AnalysisNext]_vars

(***************************************************************************)
(* C21: analyze_image never raises: whatever the bytes, it returns a       *)
(* result with the four fields disease, confidence, treatment and          *)
(* formatted_name, and a failure while loading or analysing the image      *)
(* gives disease 'analysis_error' with confidence 0.                       *)
(***************************************************************************)
\* loading fails on bytes that are no image; analysing fails when the
\* colour analysis raises
LoadingFails(image_data) == ~image_data.decodable

AnalysingFails(image_data) ==
  /\ image_data.decodable
  /\ _analyze_colors(image_data.mean[1], image_data.mean[2],
                     image_data.mean[3]).raised

C21_AnalyzeImageNeverRaises ==
  image_analysis.analysed =>
    /\ ~image_analysis.returned.raised
    /\ DOMAIN image_analysis.returned.result
         = {"disease", "confidence", "treatment", "formatted_name"}
    /\ (LoadingFails(image_analysis.image_data)
          \/ AnalysingFails(image_analysis.image_data))
         => /\ image_analysis.returned.result.disease = "analysis_error"
            /\ image_analysis.returned.result.confidence = 0

\* an all-black image: loading succeeds, the analysis fails
C21_Witness ==
  /\ image_analysis.analysed
  /\ image_analysis.image_data = ImageOf(0, 0, 0)
  /\ AnalysingFails(image_analysis.image_data)
  /\ ~image_analysis.returned.raised
  /\ image_analysis.returned.result.disease = "analysis_error"

(***************************************************************************)
(* C22: detect_disease analyses the image and saves a prediction only if   *)
(* the request has an 'image' part with a non-empty filename whose last    *)
(* extension is png, jpg, jpeg or gif in any letter case; every other      *)
(* request is answered 400, analyze_image is not called and the stored     *)
(* predictions are unchanged.                                              *)
(***************************************************************************)
AllowedExtensions ==
  {<<"p","n","g">>, <<"j","p","g">>, <<"j","p","e","g">>, <<"g","i","f">>}

\* name ends with a dot followed by e in some letter case (e has no dot, so
\* this dot is the last one of name)
EndsWithExtension(name, e) ==
  /\ Len(name) > Len(e)
  /\ name[Len(name) - Len(e)] = "."
  /\ \A j \in 1..Len(e) :
        ascii_upper_char(name[Len(name) - Len(e) + j]) = ascii_upper_char(e[j])

Eligible(upload) ==
  /\ upload.has_image
  /\ upload.filename # <<>>
  /\ \E e \in AllowedExtensions : EndsWithExtension(upload.filename, e)

DetectStep == handled' = handled + 1 /\ http'.app = "flask_disease"

C22_OnlyEligibleAnalysed ==
  [][/\ DetectStep =>
          IF Eligible(http'.body)
          THEN /\ http'.invoked
               /\ http'.status # 400
               /\ http'.status = 200
                    => flask_predictions' =
                         Append(flask_predictions,
                                [disease |-> http'.payload.data.disease,
                                 confidence |-> http'.payload.data.confidence,
                                 treatment |-> http'.payload.data.treatment])
          ELSE /\ http'.status = 400
               /\ ~http'.invoked
               /\ flask_predictions' = flask_predictions
     /\ flask_predictions' # flask_predictions
          => (DetectStep /\ Eligible(http'.body))]_vars

\* 'leaf.JPG' was analysed and its prediction saved
C22_Witness ==
  /\ http.app = "flask_disease"
  /\ http.body.filename = <<"l","e","a","f",".","J","P","G">>
  /\ Eligible(http.body)
  /\ http.invoked
  /\ http.status = 200
  /\ Len(flask_predictions) = 1

(***************************************************************************)
(* The file-based store: models_legacy.DataManager                         *)
(*                                                                         *)
(* An entry is identified by its ordinal among the entries saved to its    *)
(* file; the ordinal stands for the saved values and the timestamp.        *)
(***************************************************************************)
\* the number of entries each save keeps
PREDICTIONS_KEPT == 100
WEATHER_KEPT == 50
VOICE_QUERIES_KEPT == 100

\* the files with a save operation
SavedFiles == {"predictions.json", "weather_cache.json", "voice_queries.json"}

Kept(f) ==
  CASE f = "predictions.json" -> PREDICTIONS_KEPT
    [] f = "weather_cache.json" -> WEATHER_KEPT
    [] f = "voice_queries.json" -> VOICE_QUERIES_KEPT

\* the entries numbered from to to, in this order
Entries(from, to) == [i \in 1..(to - from + 1) |-> [id |-> from + i - 1]]

\* list[-k:] for k >= 0.  The start index -k counts from the end, except
\* that -0 is 0, the start of the list.
negative_slice(list, k) ==
  IF k = 0 \/ k >= Len(list) THEN list
  ELSE SubSeq(list, Len(list) - k + 1, Len(list))

\* list[::-1]
reversed(list) == [i \in 1..Len(list) |-> list[Len(list) - i + 1]]

\* load_json: the list in the file, or [] when the file holds no JSON
load_json(file) == IF file.valid THEN file.data ELSE <<>>

\* what becomes of a file when save_json writes data to it: the data is
\* written; or open() fails and the file stays as it was; or the file is
\* opened, hence truncated, and json.dump fails.  save_json catches the
\* exception and prints it in both cases.
WriteOutcomes == {"written", "unchanged", "truncated"}

save_json(file, data, outcome) ==
  CASE outcome = "written" -> [valid |-> TRUE, data |-> data]
    [] outcome = "unchanged" -> file
    [] outcome = "truncated" -> [valid |-> FALSE, data |-> <<>>]

\* variant: the list is cut to the kept length before the entry is appended
append_and_keep_cut_first(list, entry, kept) ==
  Append(negative_slice(list, kept), entry)

\* list.append(entry); list = list[-kept:]
append_and_keep(list, entry, kept) ==
  negative_slice(Append(list, entry), kept)

\* the files a new DataManager may find: left by earlier runs, each holds
\* no entry or one less than it keeps
FoundCounts == [SavedFiles -> {"none", "nearly full"}]

FoundCount(f, found) == IF found[f] = "none" THEN 0 ELSE Kept(f) - 1

\* DataManager.__init__ / ensure_data_files: a file that exists is left as
\* it is, a missing one is created holding []
DataManager_init(found) ==
  /\ ~constructed
  /\ constructed' = TRUE
  /\ files' = [f \in FILES |->
                 IF f \in SavedFiles
                 THEN [valid |-> TRUE, data |-> Entries(1, FoundCount(f, found))]
                 ELSE EmptyFile]
  /\ saved' = [f \in FILES |->
                 IF f \in SavedFiles THEN FoundCount(f, found) ELSE 0]
  /\ UNCHANGED <<voice_service, client_vars, http_vars, conc_vars, disease_vars,
                 image_analysis, failed, store_ops, history, saver_vars,
                 market_vars>>

\* the body shared by save_prediction, save_weather_data and
\* save_voice_query: load the list, append the entry, keep the last ones,
\* write the list back
DataManager_save(f, outcome) ==
  /\ constructed
  /\ store_ops < MaxStoreOps
  /\ store_ops' = store_ops + 1
  /\ LET list == load_json(files[f])
         entry == [id |-> saved[f] + 1]
     IN  files' = [files EXCEPT
                     ![f] = save_json(@, append_and_keep(list, entry, Kept(f)),
                                      outcome)]
  /\ saved' = [saved EXCEPT ![f] = @ + 1]
  /\ failed' = [failed EXCEPT ![f] = IF outcome = "written" THEN @ ELSE @ + 1]
  /\ UNCHANGED <<voice_service, client_vars, http_vars, conc_vars, disease_vars,
                 image_analysis, constructed, history, saver_vars,
                 market_vars>>

save_prediction_file(outcome) == DataManager_save("predictions.json", outcome)

save_weather_data_file(outcome) == DataManager_save("weather_cache.json", outcome)

save_voice_query_file(outcome) == DataManager_save("voice_queries.json", outcome)

HistoryLimits == {0, 2, 150}

\* variant: a limit of 0 returns nothing
history_of_zero_is_empty(list, limit) ==
  IF limit = 0 THEN <<>> ELSE reversed(negative_slice(list, limit))

\* list[-limit:][::-1]
history_of(list, limit) == reversed(negative_slice(list, limit))

\* get_prediction_history and get_weather_history
DataManager_get_history(f, limit) ==
  /\ constructed
  /\ store_ops < MaxStoreOps
  /\ store_ops' = store_ops + 1
  /\ history' = [called |-> TRUE, file |-> f, limit |-> limit,
                 stored |-> load_json(files[f]),
                 returned |-> history_of(load_json(files[f]), limit)]
  /\ UNCHANGED <<voice_service, client_vars, http_vars, conc_vars, disease_vars,
                 image_analysis, constructed, files, saved, failed,
                 saver_vars, market_vars>>

get_prediction_history(limit) == DataManager_get_history("predictions.json", limit)

get_weather_history(limit) == DataManager_get_history("weather_cache.json", limit)

FileNext ==
  \/ \E found \in FoundCounts : DataManager_init(found)
  \/ \E outcome \in WriteOutcomes : save_prediction_file(outcome)
  \/ \E outcome \in WriteOutcomes : save_weather_data_file(outcome)
  \/ \E outcome \in WriteOutcomes : save_voice_query_file(outcome)
  \/ \E limit \in HistoryLimits : get_prediction_history(limit)
  \/ \E limit \in HistoryLimits : get_weather_history(limit)

FileSpec == Init /\ [][FileNext]_vars

(***************************************************************************)
(* C23: after any sequence of saves predictions.json holds at most 100     *)
(* entries, weather_cache.json at most 50 and voice_queries.json at most   *)
(* 100, and the entries held are exactly the most recently saved ones, in  *)
(* the order they were saved.                                              *)
(***************************************************************************)
Min(a, b) == IF a <= b THEN a ELSE b

Held(f) == load_json(files[f])

\* the n most recently saved entries of f, oldest first
MostRecent(f, n) == Entries(saved[f] - n + 1, saved[f])

WithinLimit(f) == Len(Held(f)) <= Kept(f)

InSavingOrder(f) ==
  /\ \A i \in 1..Len(Held(f)) : Held(f)[i].id \in 1..saved[f]
  /\ \A i \in 1..(Len(Held(f)) - 1) : Held(f)[i].id < Held(f)[i + 1].id

LatestFirst(list, k) == [i \in 1..k |-> list[Len(list) - i + 1]]

C24_HistoryLatestFirst ==
  history.called =>
    LET n == Len(history.stored)
        k == Min(history.limit, n)
    IN  /\ Len(history.returned) = k
        /\ history.returned = LatestFirst(history.stored, k)

\* every limit above 0 gives the min(limit, n) latest entries, latest first
PositiveLimitHistory ==
  (history.called /\ history.limit > 0) =>
    history.returned
      = LatestFirst(history.stored, Min(history.limit, Len(history.stored)))

(***************************************************************************)
(* Saves of the file store run by concurrent threads.  A save reads the    *)
(* file (load_json) and later writes it (save_json); other threads may     *)
(* run in between.  No lock is taken.                                      *)
(***************************************************************************)
\* thread t enters a save on file f: the list is loaded and the entry built
SaveLoad(t, f) ==
  /\ constructed
  /\ saver[t].pc = "idle"
  /\ f \in SavedFiles
  /\ saver' = [saver EXCEPT ![t] = [pc |-> "loaded", file |-> f,
                                    list |-> load_json(files[f]),
                                    entry |-> [id |-> saved[f] + 1]]]
  /\ saved' = [saved EXCEPT ![f] = @ + 1]
  /\ UNCHANGED <<voice_service, client_vars, http_vars, conc_vars, disease_vars,
                 image_analysis, constructed, files, failed, store_ops, history,
                 market_vars>>

\* thread t appends its entry to the list it loaded and writes the file
SaveWrite(t, outcome) ==
  /\ saver[t].pc = "loaded"
  /\ LET f == saver[t].file
     IN  /\ files' = [files EXCEPT
                        ![f] = save_json(@, append_and_keep(saver[t].list,
                                                            saver[t].entry,
                                                            Kept(f)),
                                         outcome)]
         /\ failed' = [failed EXCEPT
                         ![f] = IF outcome = "written" THEN @ ELSE @ + 1]
  /\ saver' = [saver EXCEPT ![t].pc = "done"]
  /\ UNCHANGED <<voice_service, client_vars, http_vars, conc_vars, disease_vars,
                 image_analysis, constructed, saved, store_ops, history,
                 market_vars>>

ConcFileNext ==
  \/ \E found \in FoundCounts : DataManager_init(found)
  \/ \E t \in Threads, f \in SavedFiles : SaveLoad(t, f)
  \/ \E t \in Threads, outcome \in WriteOutcomes : SaveWrite(t, outcome)

ConcFileSpec == Init /\ [][ConcFileNext]_vars

(***************************************************************************)
(* C25: when two saves on the same file run concurrently, then after both  *)
(* have completed both records are in the file, under every interleaving   *)
(* of their load and write steps.                                          *)
(***************************************************************************)
HeldIds(f) == {Held(f)[i].id : i \in 1..Len(Held(f))}

\* as stated, for saves whose writes all succeeded
C25_NoLostUpdate ==
  \A t \in Threads, u \in Threads :
    ( /\ t # u
      /\ saver[t].pc = "done"
      /\ saver[u].pc = "done"
      /\ saver[t].file = saver[u].file
      /\ failed[saver[t].file] = 0 )
      => {saver[t].entry.id, saver[u].entry.id} \subseteq HeldIds(saver[t].file)

\* two completed saves of which one began only after the other had written
\* have both their records in the file
SerialSavesKeepBoth ==
  \A t \in Threads, u \in Threads :
    ( /\ t # u
      /\ saver[t].pc = "done"
      /\ saver[u].pc = "done"
      /\ saver[t].file = saver[u].file
      /\ failed[saver[t].file] = 0
      /\ \A v \in Threads :
            (saver[v].file = saver[t].file /\ saver[v].pc # "idle")
              => \A w \in Threads :
                   (saver[w].file = saver[t].file /\ saver[w].pc # "idle"
                      /\ saver[w].entry.id > saver[v].entry.id)
                     => \E i \in 1..Len(saver[w].list) :
                          saver[w].list[i].id = saver[v].entry.id )
      => {saver[t].entry.id, saver[u].entry.id} \subseteq HeldIds(saver[t].file)

(***************************************************************************)
(* DatabaseManager.save_market_prices of both database managers            *)
(*                                                                         *)
(* The statements of one call run in one transaction: they change the      *)
(* working copy of the table, which replaces the committed rows at commit  *)
(* and is dropped at rollback.                                             *)
(***************************************************************************)
\* a column value that is None
NULL == "NULL"

\* items of the list prices: complete, lacking the key 'name', and with a
\* price of None
Tomato == [category |-> "Vegetable", name |-> "Tomato", price |-> "40"]

AppleWithoutName == [category |-> "Fruit", price |-> "120"]

MangoWithoutPrice == [category |-> "Fruit", name |-> "Mango", price |-> NULL]

PriceLists ==
  {<<>>, <<Tomato>>, <<AppleWithoutName>>, <<Tomato, AppleWithoutName>>,
   <<Tomato, MangoWithoutPrice>>, <<Tomato, Tomato>>}

\* DELETE ... WHERE timestamp is older than one day
delete_old(rows) == SelectSeq(rows, LAMBDA row : ~row.old)

\* item['category'], item['name'], item['price'] raise KeyError on a
\* missing key
has_keys(item) == {"category", "name", "price"} \subseteq DOMAIN item

\* the NOT NULL columns category, name and price
violates_not_null(row) ==
  row.category = NULL \/ row.name = NULL \/ row.price = NULL

\* the row an item is inserted as; its timestamp is the current time
row_of(item) ==
  [category |-> item.category, name |-> item.name, price |-> item.price,
   old |-> FALSE]

\* the async service executes each INSERT at once, so a NOT NULL violation
\* is raised by the INSERT; the synchronous app only adds the object to the
\* session, and the violation is raised when commit flushes it
insert_raises(d, item) ==
  \/ ~has_keys(item)
  \/ d = "fastapi" /\ violates_not_null(row_of(item))

commit_raises(d, working) ==
  d = "flask" /\ \E i \in 1..Len(working) : violates_not_null(working[i])

\* the call starts: a transaction begins with the deletion of the old rows
save_market_prices(d, prices) ==
  /\ market_calls < MaxMarketCalls
  /\ market_txn[d].pc # "inserting"
  /\ market_calls' = market_calls + 1
  /\ market_txn' = [market_txn EXCEPT
                      ![d] = [pc |-> "inserting", before |-> market_prices[d],
                              working |-> delete_old(market_prices[d]),
                              prices |-> prices, i |-> 1]]
  /\ UNCHANGED <<voice_service, client_vars, http_vars, conc_vars, disease_vars,
                 image_analysis, file_vars, saver_vars, market_prices>>

\* variant: every statement is committed as it is executed
insert_item_autocommit(d) ==
  /\ market_txn[d].pc = "inserting"
  /\ market_txn[d].i <= Len(market_txn[d].prices)
  /\ LET item == market_txn[d].prices[market_txn[d].i]
     IN  IF insert_raises(d, item)
         THEN /\ market_txn' = [market_txn EXCEPT ![d].pc = "raised",
                                                  ![d].working = <<>>]
              /\ UNCHANGED market_prices
         ELSE /\ market_txn' = [market_txn EXCEPT
                                  ![d].working = Append(@, row_of(item)),
                                  ![d].i = @ + 1]
              /\ market_prices' =
                   [market_prices EXCEPT
                      ![d] = Append(market_txn[d].working, row_of(item))]
  /\ UNCHANGED <<voice_service, client_vars, http_vars, conc_vars, disease_vars,
                 image_analysis, file_vars, saver_vars, market_calls>>

\* one turn of the loop over prices: the item is inserted in the
\* transaction, or it raises, the transaction is rolled back and the
\* exception is raised again to the caller
insert_item(d) ==
  /\ market_txn[d].pc = "inserting"
  /\ market_txn[d].i <= Len(market_txn[d].prices)
  /\ LET item == market_txn[d].prices[market_txn[d].i]
     IN  IF insert_raises(d, item)
         THEN market_txn' = [market_txn EXCEPT ![d].pc = "raised",
                                               ![d].working = <<>>]
         ELSE market_txn' = [market_txn EXCEPT
                               ![d].working = Append(@, row_of(item)),
                               ![d].i = @ + 1]
  /\ UNCHANGED <<voice_service, client_vars, http_vars, conc_vars, disease_vars,
                 image_analysis, file_vars, saver_vars, market_prices,
                 market_calls>>

\* after the loop: commit makes the working copy the committed rows, or it
\* raises (a constraint violation found by the flush, or the database
\* fails), the transaction is rolled back and the exception raised again
commit_market_prices(d, commit_ok) ==
  /\ market_txn[d].pc = "inserting"
  /\ market_txn[d].i > Len(market_txn[d].prices)
  /\ IF commit_ok /\ ~commit_raises(d, market_txn[d].working)
     THEN /\ market_prices' = [market_prices EXCEPT ![d] = market_txn[d].working]
          /\ market_txn' = [market_txn EXCEPT ![d].pc = "returned",
                                              ![d].working = <<>>]
     ELSE /\ market_txn' = [market_txn EXCEPT ![d].pc = "raised",
                                              ![d].working = <<>>]
          /\ UNCHANGED market_prices
  /\ UNCHANGED <<voice_service, client_vars, http_vars, conc_vars, disease_vars,
                 image_analysis, file_vars, saver_vars, market_calls>>

\* more than a day passes while no call is running: the rows stored so far
\* are now older than one day
DayPasses ==
  /\ \A d \in Databases : market_txn[d].pc # "inserting"
  /\ \E d \in Databases : \E i \in 1..Len(market_prices[d]) :
        ~market_prices[d][i].old
  /\ market_prices' =
       [d \in Databases |->
          [i \in 1..Len(market_prices[d]) |->
             [market_prices[d][i] EXCEPT !.old = TRUE]]]
  /\ UNCHANGED <<voice_service, client_vars, http_vars, conc_vars, disease_vars,
                 image_analysis, file_vars, saver_vars, market_txn, market_calls>>

MarketNext ==
  \/ \E d \in Databases, prices \in PriceLists : save_market_prices(d, prices)
  \/ \E d \in Databases : insert_item(d)
  \/ \E d \in Databases, commit_ok \in BOOLEAN : commit_market_prices(d, commit_ok)
  \/ DayPasses

MarketSpec == Init /\ [][MarketNext]_vars

(***************************************************************************)
(* C26: save_market_prices is all-or-nothing in both database managers:    *)
(* if inserting an item of the list fails, neither the deletion of the     *)
(* prices older than one day nor any insert made earlier in the call is    *)
(* visible afterwards, and the exception propagates to the caller.         *)
(***************************************************************************)
\* an item whose insert cannot succeed
Uninsertable(item) ==
  \/ "category" \notin DOMAIN item \/ "name" \notin DOMAIN item
  \/ "price" \notin DOMAIN item
  \/ \E k \in DOMAIN item : item[k] = NULL

HasUninsertable(prices) == \E i \in 1..Len(prices) : Uninsertable(prices[i])

C26_AllOrNothing ==
  /\ [](\A d \in Databases :
          /\ (market_txn[d].pc = "inserting")
               => market_prices[d] = market_txn[d].before
          /\ (market_txn[d].pc = "returned")
               => ~HasUninsertable(market_txn[d].prices))
  /\ [][\A d \in Databases :
          (market_txn[d].pc = "inserting" /\ market_txn'[d].pc # "inserting")
            => IF HasUninsertable(market_txn[d].prices)
               THEN /\ market_txn'[d].pc = "raised"
                    /\ market_prices'[d] = market_txn[d].before
               ELSE \/ /\ market_txn'[d].pc = "raised"
                       /\ market_prices'[d] = market_txn[d].before
                    \/ /\ market_txn'[d].pc = "returned"
                       /\ Len(market_prices'[d])
                            = Len(SelectSeq(market_txn[d].before,
                                            LAMBDA row : ~row.old))
                              + Len(market_txn[d].prices)]_vars

\* an old row is stored, and a call with the list (Tomato, item without
\* name) has raised: the old row is still there and no Tomato was added
C26_Witness ==
  \E d \in Databases :
    /\ market_txn[d].pc = "raised"
    /\ market_txn[d].prices = <<Tomato, AppleWithoutName>>
    /\ Len(market_txn[d].before) = 1
    /\ market_txn[d].before[1].old
    /\ market_prices[d] = market_txn[d].before

TypeOK ==
  /\ nfrag \in 0..MaxFragments
  /\ calls \in 0..MaxCalls
  /\ last.called = (calls > 0)
====
